---- MODULE Spec2Model ----
(***************************************************************************)
(* Model of the Sampling-Tool core (src/src/main.py): the filter and rule  *)
(* predicates (DimensionalFilter.to_sql_where, SamplingRule.matches), the  *)
(* stratified sampling loop, the global-filter pipeline and the            *)
(* configuration save/load of DataHandler, together with the part of the   *)
(* dataset store (src/src/database.py) that evaluates a WHERE clause.      *)
(*                                                                         *)
(* Text is a sequence of one-character strings; a Python value is a        *)
(* tagged record [t, s, n]: t is the Python type, s the text of a str,     *)
(* n the number of a float/int or the yyyymmdd ordinal of a datetime.      *)
(***************************************************************************)
EXTENDS Integers, Sequences, FiniteSets, TLC

(***************************************************************************)
(* Bounds of the model.                                                    *)
(***************************************************************************)
MaxStrLen == 2
MaxRules == 2
MaxFilters == 2
MaxRows == 3
MaxNesting == 1

(***************************************************************************)
(* Text helpers.                                                           *)
(***************************************************************************)
Range(f) == {f[i] : i \in DOMAIN f}

SeqsUpTo(S, n) == UNION {[1..k -> S] : k \in 0..n}

Digits == <<"0", "1", "2", "3", "4", "5", "6", "7", "8", "9">>

IsDigit(c) == c \in Range(Digits)

DigitVal(c) == CHOOSE i \in 0..9 : Digits[i + 1] = c

\* byte order of the characters the model uses (ASCII code points)
Ord(c) ==
    CASE c = "%" -> 37
      [] c = "," -> 44
      [] c = "-" -> 45
      [] c = "." -> 46
      [] IsDigit(c) -> 48 + DigitVal(c)
      [] c = "A" -> 65
      [] c = "B" -> 66
      [] c = "N" -> 78
      [] c = "_" -> 95
      [] c = "a" -> 97
      [] c = "b" -> 98
      [] c = "e" -> 101
      [] c = "n" -> 110
      [] c = "o" -> 111
      [] OTHER -> 0

\* str.lower() on one character
LowerChar(c) ==
    CASE c = "A" -> "a"
      [] c = "B" -> "b"
      [] c = "N" -> "n"
      [] OTHER -> c

Lower(s) == [i \in 1..Len(s) |-> LowerChar(s[i])]

\* Python "needle in haystack" on str
Contains(hay, needle) ==
    \E i \in 0..(Len(hay) - Len(needle)) :
        \A j \in 1..Len(needle) : hay[i + j] = needle[j]

\* memcmp order on text: a < b
StrLess(a, b) ==
    \E k \in 1..Len(b) :
        /\ \A j \in 1..(k - 1) : j <= Len(a) /\ a[j] = b[j]
        /\ \/ k = Len(a) + 1
           \/ k <= Len(a) /\ Ord(a[k]) < Ord(b[k])

\* n written with exactly w decimal digits (zero padded)
RECURSIVE Pad(_, _)
Pad(n, w) == IF w = 0 THEN <<>> ELSE Append(Pad(n \div 10, w - 1), Digits[(n % 10) + 1])

\* value of a text made of digits only
RECURSIVE DigitsVal(_)
DigitsVal(s) ==
    IF s = <<>> THEN 0
    ELSE 10 * DigitsVal(SubSeq(s, 1, Len(s) - 1)) + DigitVal(s[Len(s)])

AllDigits(s) == s # <<>> /\ \A i \in 1..Len(s) : IsDigit(s[i])

(***************************************************************************)
(* Python values.                                                          *)
(***************************************************************************)
None == [t |-> "none", s |-> <<>>, n |-> 0]
Str(s) == [t |-> "str", s |-> s, n |-> 0]
Num(n) == [t |-> "num", s |-> <<>>, n |-> n]
\* datetime.datetime at midnight, n = yyyymmdd
DateTime(y, m, d) == [t |-> "datetime", s |-> <<>>, n |-> (y * 10000) + (m * 100) + d]

YearOf(v) == v.n \div 10000
MonthOf(v) == (v.n \div 100) % 100
DayOf(v) == v.n % 100

\* str(value) as SamplingRule.matches and the exports use it
PyStr(v) ==
    CASE v.t = "none" -> <<"N", "o", "n", "e">>
      [] v.t = "str" -> v.s
      [] v.t = "num" -> IF v.n < 0 THEN <<"-">> \o Pad(0 - v.n, 1) ELSE Pad(v.n, IF v.n > 9 THEN 2 ELSE 1)
      [] OTHER -> Pad(YearOf(v), 4) \o <<"-">> \o Pad(MonthOf(v), 2) \o <<"-">> \o Pad(DayOf(v), 2)

\* Python truthiness of a value
Truthy(v) ==
    CASE v.t = "none" -> FALSE
      [] v.t = "str" -> v.s # <<>>
      [] v.t = "num" -> v.n # 0
      [] OTHER -> TRUE

\* dict.get(key) with the default None
Get(d, k) == IF k \in DOMAIN d THEN d[k] ELSE None

(***************************************************************************)
(* datetime.strftime / datetime.strptime.                                  *)
(***************************************************************************)
\* value.strftime('%Y-%m-%d')
StrftimeYmd(v) == Pad(YearOf(v), 4) \o <<"-">> \o Pad(MonthOf(v), 2) \o <<"-">> \o Pad(DayOf(v), 2)

\* value.strftime('%d-%m-%Y')
StrftimeDmy(v) == Pad(DayOf(v), 2) \o <<"-">> \o Pad(MonthOf(v), 2) \o <<"-">> \o Pad(YearOf(v), 4)

\* the fields of s between the separators sep
RECURSIVE Fields(_, _)
Fields(s, sep) ==
    IF \A i \in 1..Len(s) : s[i] # sep THEN <<s>>
    ELSE LET k == CHOOSE i \in 1..Len(s) : s[i] = sep /\ \A j \in 1..(i - 1) : s[j] # sep
         IN <<SubSeq(s, 1, k - 1)>> \o Fields(SubSeq(s, k + 1, Len(s)), sep)

IsLeap(y) == (y % 4 = 0 /\ y % 100 # 0) \/ y % 400 = 0

DaysIn(y, m) ==
    IF m = 2 THEN (IF IsLeap(y) THEN 29 ELSE 28)
    ELSE IF m \in {4, 6, 9, 11} THEN 30 ELSE 31

\* does datetime.strptime(s, '<a>-<b>-<c>') succeed, the year being field yi
StrptimeOk(s, yi, mi, di) ==
    LET f == Fields(s, "-") IN
    /\ Len(f) = 3
    /\ \A i \in 1..3 : AllDigits(f[i])
    /\ Len(f[yi]) = 4
    /\ Len(f[mi]) \in 1..2 /\ DigitsVal(f[mi]) \in 1..12
    /\ Len(f[di]) \in 1..2 /\ DigitsVal(f[di]) \in 1..DaysIn(DigitsVal(f[yi]), DigitsVal(f[mi]))

StrptimeVal(s, yi, mi, di) ==
    LET f == Fields(s, "-") IN DateTime(DigitsVal(f[yi]), DigitsVal(f[mi]), DigitsVal(f[di]))

\* datetime.strptime(s, '%Y-%m-%d')
StrptimeYmdOk(s) == StrptimeOk(s, 1, 2, 3)
StrptimeYmd(s) == StrptimeVal(s, 1, 2, 3)

\* float(s) of a str: the model holds numbers as integers, so a text parses
\* iff it is an optionally signed run of digits
FloatOk(s) == AllDigits(s) \/ (Len(s) > 1 /\ s[1] = "-" /\ AllDigits(Tail(s)))
FloatVal(s) == IF s[1] = "-" THEN Num(0 - DigitsVal(Tail(s))) ELSE Num(DigitsVal(s))

\* a < b in Python raises TypeError unless both are numbers or both datetimes
PyComparable(a, b) == a.t = b.t /\ a.t \in {"num", "datetime"}

(***************************************************************************)
(* ColumnType, DimensionalFilter, SamplingRule.                            *)
(***************************************************************************)
TEXT == "text"
NUMBER == "number"
DATE == "date"
UNKNOWN == "unknown"

ColumnType == {TEXT, NUMBER, DATE, UNKNOWN}

\* DimensionalFilter(column, column_type) with a filter_config
DimensionalFilter(column, column_type, filter_config) ==
    [column |-> column, column_type |-> column_type, filter_config |-> filter_config]

\* SamplingRule(name, column, column_type) with a filter_config and a sample_count
SamplingRule(name, column, column_type, filter_config, sample_count) ==
    [name |-> name, column |-> column, column_type |-> column_type,
     filter_config |-> filter_config, sample_count |-> sample_count]

\* filter_config.get('type', 'equals')
FilterType(cfg) == IF "type" \in DOMAIN cfg THEN cfg.type ELSE "equals"
\* filter_config.get('values', [])
FilterValues(cfg) == IF "values" \in DOMAIN cfg THEN cfg.values ELSE <<>>
\* filter_config.get('pattern', '')
FilterPattern(cfg) == IF "pattern" \in DOMAIN cfg THEN cfg.pattern ELSE <<>>

(***************************************************************************)
(* SamplingRule.matches(row).                                              *)
(***************************************************************************)
\* matches with a case-sensitive test of the pattern
MatchesTextCaseSensitive(cfg, value) ==
    IF FilterType(cfg) = "equals"
    THEN FilterValues(cfg) = <<>> \/ PyStr(value) \in Range(FilterValues(cfg))
    ELSE IF FilterType(cfg) = "contains"
    THEN FilterPattern(cfg) = <<>> \/ Contains(PyStr(value), FilterPattern(cfg))
    ELSE TRUE

MatchesText(cfg, value) ==
    IF FilterType(cfg) = "equals"
    THEN FilterValues(cfg) = <<>> \/ PyStr(value) \in Range(FilterValues(cfg))
    ELSE IF FilterType(cfg) = "contains"
    THEN FilterPattern(cfg) = <<>> \/ Contains(Lower(PyStr(value)), Lower(FilterPattern(cfg)))
    ELSE TRUE

MatchesNumber(cfg, value) ==
    IF value.t = "none" THEN FALSE
    ELSE IF value.t = "str" /\ ~FloatOk(value.s) THEN FALSE
    ELSE LET num_value == IF value.t = "str" THEN FloatVal(value.s) ELSE value
             min_val == Get(cfg, "min")
             max_val == Get(cfg, "max")
         IN IF min_val.t # "none" /\ ~PyComparable(num_value, min_val) THEN FALSE
            ELSE IF min_val.t # "none" /\ num_value.n < min_val.n THEN FALSE
            ELSE IF max_val.t # "none" /\ ~PyComparable(num_value, max_val) THEN FALSE
            ELSE IF max_val.t # "none" /\ num_value.n > max_val.n THEN FALSE
            ELSE TRUE

MatchesDate(cfg, value) ==
    IF value.t = "none" THEN FALSE
    ELSE IF value.t = "str" /\ ~StrptimeYmdOk(value.s) THEN FALSE
    ELSE LET date_value == IF value.t = "str" THEN StrptimeYmd(value.s) ELSE value
             date_from == Get(cfg, "from")
             date_to == Get(cfg, "to")
         IN IF Truthy(date_from) /\ ~PyComparable(date_value, date_from) THEN FALSE
            ELSE IF Truthy(date_from) /\ date_value.n < date_from.n THEN FALSE
            ELSE IF Truthy(date_to) /\ ~PyComparable(date_value, date_to) THEN FALSE
            ELSE IF Truthy(date_to) /\ date_value.n > date_to.n THEN FALSE
            ELSE TRUE

matches(rule, row) ==
    LET value == Get(row, rule.column) IN
    CASE rule.column_type = TEXT -> MatchesText(rule.filter_config, value)
      [] rule.column_type = NUMBER -> MatchesNumber(rule.filter_config, value)
      [] rule.column_type = DATE -> MatchesDate(rule.filter_config, value)
      [] OTHER -> TRUE

(***************************************************************************)
(* DimensionalFilter.to_sql_where(): the predicate text is a sequence of   *)
(* tokens, a token being the column name, a fixed piece of SQL, the        *)
(* placeholder '?' or (in no code path of to_sql_where) a literal.         *)
(***************************************************************************)
Col(c) == [k |-> "col", w |-> c, v |-> None]
Kw(w) == [k |-> "kw", w |-> w, v |-> None]
Ph == [k |-> "ph", w |-> "?", v |-> None]
Lit(v) == [k |-> "lit", w |-> "", v |-> v]

\* ','.join('?' * n)
RECURSIVE Placeholders(_)
Placeholders(n) ==
    IF n = 0 THEN <<>>
    ELSE IF n = 1 THEN <<Ph>>
    ELSE Placeholders(n - 1) \o <<Kw(","), Ph>>

\* " AND ".join(clauses)
RECURSIVE JoinAnd(_)
JoinAnd(clauses) ==
    IF clauses = <<>> THEN <<>>
    ELSE IF Len(clauses) = 1 THEN clauses[1]
    ELSE clauses[1] \o <<Kw("AND")>> \o JoinAnd(Tail(clauses))

\* the outcome of to_sql_where: (clause, params), or an exception
SqlOk(clause, params) == [raised |-> FALSE, clause |-> clause, params |-> params]
SqlRaised == [raised |-> TRUE, clause |-> <<>>, params |-> <<>>]
SqlNone == SqlOk(<<>>, <<>>)

\* to_sql_where with the pattern written into the text of the LIKE predicate
SqlWhereTextInterpolated(column, cfg) ==
    IF FilterType(cfg) = "equals"
    THEN LET values == FilterValues(cfg) IN
         IF values # <<>>
         THEN SqlOk(<<Col(column), Kw("IN (")>> \o Placeholders(Len(values)) \o <<Kw(")")>>,
                    [i \in 1..Len(values) |-> Str(values[i])])
         ELSE SqlNone
    ELSE IF FilterType(cfg) = "contains"
    THEN LET pattern == FilterPattern(cfg) IN
         IF pattern # <<>>
         THEN SqlOk(<<Col(column), Kw("LIKE"), Lit(Str(<<"%">> \o pattern \o <<"%">>))>>, <<>>)
         ELSE SqlNone
    ELSE SqlNone

SqlWhereText(column, cfg) ==
    IF FilterType(cfg) = "equals"
    THEN LET values == FilterValues(cfg) IN
         IF values # <<>>
         THEN SqlOk(<<Col(column), Kw("IN (")>> \o Placeholders(Len(values)) \o <<Kw(")")>>,
                    [i \in 1..Len(values) |-> Str(values[i])])
         ELSE SqlNone
    ELSE IF FilterType(cfg) = "contains"
    THEN LET pattern == FilterPattern(cfg) IN
         IF pattern # <<>>
         THEN SqlOk(<<Col(column), Kw("LIKE"), Ph>>, <<Str(<<"%">> \o pattern \o <<"%">>)>>)
         ELSE SqlNone
    ELSE SqlNone

SqlWhereNumber(column, cfg) ==
    LET min_val == Get(cfg, "min")
        max_val == Get(cfg, "max")
        lo == IF min_val.t # "none"
              THEN << <<Kw("CAST("), Col(column), Kw("AS REAL)"), Kw(">="), Ph>> >> ELSE <<>>
        hi == IF max_val.t # "none"
              THEN << <<Kw("CAST("), Col(column), Kw("AS REAL)"), Kw("<="), Ph>> >> ELSE <<>>
        params == (IF min_val.t # "none" THEN <<min_val>> ELSE <<>>)
                  \o (IF max_val.t # "none" THEN <<max_val>> ELSE <<>>)
    IN IF lo \o hi # <<>> THEN SqlOk(JoinAnd(lo \o hi), params) ELSE SqlNone

SqlWhereDate(column, cfg) ==
    LET date_from == Get(cfg, "from")
        date_to == Get(cfg, "to")
        lo == IF Truthy(date_from) THEN << <<Col(column), Kw(">="), Ph>> >> ELSE <<>>
        hi == IF Truthy(date_to) THEN << <<Col(column), Kw("<="), Ph>> >> ELSE <<>>
        params == (IF Truthy(date_from) THEN <<Str(StrftimeYmd(date_from))>> ELSE <<>>)
                  \o (IF Truthy(date_to) THEN <<Str(StrftimeYmd(date_to))>> ELSE <<>>)
    IN \* .strftime on a bound that is not a datetime raises AttributeError
       IF (Truthy(date_from) /\ date_from.t # "datetime") \/ (Truthy(date_to) /\ date_to.t # "datetime")
       THEN SqlRaised
       ELSE IF lo \o hi # <<>> THEN SqlOk(JoinAnd(lo \o hi), params) ELSE SqlNone

to_sql_where(f) ==
    IF f.column = "" \/ f.filter_config = <<>> THEN SqlNone
    ELSE CASE f.column_type = TEXT -> SqlWhereText(f.column, f.filter_config)
           [] f.column_type = NUMBER -> SqlWhereNumber(f.column, f.filter_config)
           [] f.column_type = DATE -> SqlWhereDate(f.column, f.filter_config)
           [] OTHER -> SqlNone

(***************************************************************************)
(* The dataset store (SQLite behind database.py): evaluation of the WHERE  *)
(* clause that get_filtered_data puts after "SELECT * FROM <table> WHERE". *)
(***************************************************************************)
\* pattern LIKE text: '%' is any run of characters, '_' any one character,
\* letters compare case-insensitively
RECURSIVE LikeMatch(_, _)
LikeMatch(pattern, text) ==
    IF pattern = <<>> THEN text = <<>>
    ELSE IF pattern[1] = "%"
    THEN \E k \in 0..Len(text) : LikeMatch(Tail(pattern), SubSeq(text, k + 1, Len(text)))
    ELSE /\ text # <<>>
         /\ pattern[1] = "_" \/ LowerChar(pattern[1]) = LowerChar(text[1])
         /\ LikeMatch(Tail(pattern), Tail(text))

\* the longest prefix of s made of digits
RECURSIVE DigitPrefix(_)
DigitPrefix(s) ==
    IF s = <<>> \/ ~IsDigit(s[1]) THEN <<>> ELSE <<s[1]>> \o DigitPrefix(Tail(s))

\* CAST(x AS REAL): a text is read up to its longest numeric prefix, 0 without one
SqlCastReal(x) ==
    CASE x.t = "none" -> None
      [] x.t = "num" -> x
      [] x.t = "str" ->
            IF x.s # <<>> /\ x.s[1] = "-"
            THEN Num(0 - DigitsVal(DigitPrefix(Tail(x.s))))
            ELSE Num(DigitsVal(DigitPrefix(x.s)))
      [] OTHER -> None

\* a < b in the store's order: numbers before text, text by memcmp
SqlLess(a, b) ==
    CASE a.t = "num" /\ b.t = "num" -> a.n < b.n
      [] a.t = "str" /\ b.t = "str" -> StrLess(a.s, b.s)
      [] a.t = "num" /\ b.t = "str" -> TRUE
      [] OTHER -> FALSE

SqlComparable(a, b) == a.t \in {"num", "str"} /\ b.t \in {"num", "str"}

\* x op y is true (a comparison with NULL is never true)
SqlCompare(op, x, y) ==
    /\ SqlComparable(x, y)
    /\ CASE op = ">=" -> ~SqlLess(x, y)
         [] op = "<=" -> ~SqlLess(y, x)
         [] OTHER -> FALSE

SqlText(x) == IF x.t = "num" THEN PyStr(x) ELSE x.s

\* the value an operand token stands for: the next bound parameter, or the literal
Operand(tk, params, p) == IF tk.k = "ph" THEN params[p] ELSE tk.v

IsOperand(tk) == tk.k \in {"ph", "lit"}

NumPlaceholders(toks) == Cardinality({i \in 1..Len(toks) : toks[i].k = "ph"})

\* is the WHERE clause toks[i..] true of row, params[p..] being still unbound
RECURSIVE SqlHoldsFrom(_, _, _, _, _)
SqlHoldsFrom(toks, i, params, p, row) ==
    IF i > Len(toks) THEN TRUE
    ELSE IF toks[i].k = "kw" /\ toks[i].w \in {"(", ")", "AND"}
    THEN SqlHoldsFrom(toks, i + 1, params, p, row)
    ELSE IF toks[i].k = "kw" /\ toks[i].w = "CAST("
    THEN /\ SqlCompare(toks[i + 3].w, SqlCastReal(Get(row, toks[i + 1].w)),
                       Operand(toks[i + 4], params, p))
         /\ SqlHoldsFrom(toks, i + 5, params, p + NumPlaceholders(<<toks[i + 4]>>), row)
    ELSE IF toks[i + 1].w = "IN ("
    THEN LET close == CHOOSE j \in (i + 2)..Len(toks) :
                          /\ toks[j] = Kw(")")
                          /\ \A h \in (i + 2)..(j - 1) : toks[h] # Kw(")")
             ops == {h \in (i + 2)..(close - 1) : IsOperand(toks[h])}
             x == Get(row, toks[i].w)
         IN /\ \E h \in ops :
                  LET y == Operand(toks[h], params,
                                   p + NumPlaceholders(SubSeq(toks, i + 2, h - 1)))
                  IN x.t # "none" /\ x = y
            /\ SqlHoldsFrom(toks, close + 1, params,
                            p + NumPlaceholders(SubSeq(toks, i + 2, close)), row)
    ELSE IF toks[i + 1].w = "LIKE"
    THEN LET x == Get(row, toks[i].w)
             y == Operand(toks[i + 2], params, p)
         IN /\ x.t \in {"str", "num"} /\ y.t \in {"str", "num"}
            /\ LikeMatch(SqlText(y), SqlText(x))
            /\ SqlHoldsFrom(toks, i + 3, params, p + NumPlaceholders(<<toks[i + 2]>>), row)
    ELSE /\ SqlCompare(toks[i + 1].w, Get(row, toks[i].w), Operand(toks[i + 2], params, p))
         /\ SqlHoldsFrom(toks, i + 3, params, p + NumPlaceholders(<<toks[i + 2]>>), row)

SqlHolds(toks, params, row) == SqlHoldsFrom(toks, 1, params, 1, row)

\* cursor.execute raises when the bindings do not fit the placeholders
SqlBindOk(toks, params) == NumPlaceholders(toks) = Len(params)

\* SelectSeq that keeps the order of the table
RECURSIVE FilterSeq(_, _, _)
FilterSeq(rows, toks, params) ==
    IF rows = <<>> THEN <<>>
    ELSE (IF SqlHolds(toks, params, rows[1]) THEN <<rows[1]>> ELSE <<>>)
         \o FilterSeq(Tail(rows), toks, params)

(***************************************************************************)
(* DataHandler.apply_global_filters: the WHERE clause and the parameter    *)
(* tuple built from the global filters.                                    *)
(***************************************************************************)
\* one pass of "for filter_obj in self.global_filters" over filters
RECURSIVE BuildWhere(_)
BuildWhere(filters) ==
    IF filters = <<>> THEN [raised |-> FALSE, where_clauses |-> <<>>, all_params |-> <<>>]
    ELSE LET rest == BuildWhere(SubSeq(filters, 1, Len(filters) - 1))
             q == to_sql_where(filters[Len(filters)])
         IN IF rest.raised \/ q.raised
            THEN [raised |-> TRUE, where_clauses |-> <<>>, all_params |-> <<>>]
            ELSE IF q.clause # <<>>
            THEN [raised |-> FALSE,
                  where_clauses |-> Append(rest.where_clauses, <<Kw("(")>> \o q.clause \o <<Kw(")")>>),
                  all_params |-> rest.all_params \o q.params]
            ELSE rest

\* " AND ".join(where_clauses)
WhereClause(filters) == JoinAnd(BuildWhere(filters).where_clauses)

(***************************************************************************)
(* State.                                                                  *)
(***************************************************************************)
VARIABLES
    current_table,      \* DataHandler.current_table (= table_name)
    column_names,       \* DataHandler.column_names
    column_types,       \* DataHandler.column_types
    data,               \* DataHandler.data
    filtered_data,      \* DataHandler.filtered_data
    global_filters,     \* DataHandler.global_filters
    sampling_rules,     \* DataHandler.sampling_rules
    results,            \* DataHandler.results
    config_file,        \* the JSON document written by save_configuration
    saved_from,         \* history: the filters and rules as they were when save_configuration was last called
    pc,                 \* "idle", "sampling" (inside generate_stratified_sample), "callback" (inside its
                        \* progress callback) or "returned" (it has just returned)
    rule_i,             \* generate_stratified_sample: number of rules taken from the list
    loop_rule,          \* generate_stratified_sample: the local "rule" of the loop
    stack,              \* the locals of the runs suspended in the progress callback, outermost first
    sampled_indices,    \* generate_stratified_sample: sampled_indices
    rule_results,       \* generate_stratified_sample: rule_results (the report)
    drawn,              \* history: for each row the run has drawn, its index in filtered_data and its rule
    pin,                \* predicate evaluation: the filters and the row under evaluation
    pout                \* predicate evaluation: the outcome of the two evaluators

vars == <<current_table, column_names, column_types, data, filtered_data, global_filters,
          sampling_rules, results, config_file, saved_from, pc, rule_i, loop_rule, stack,
          sampled_indices, rule_results, drawn, pin, pout>>

handlerVars == <<current_table, column_names, column_types, data, filtered_data,
                 global_filters, sampling_rules, results>>
fileVars == <<config_file, saved_from>>
runVars == <<pc, rule_i, loop_rule, stack, sampled_indices, rule_results, drawn>>
predVars == <<pin, pout>>

(***************************************************************************)
(* The store: the production tables and their rows.                        *)
(***************************************************************************)
\* Database.get_production_tables
available_tables == <<"kundenstamm", "softfact_vw", "kontodaten_vw">>

TableColumns ==
    [t \in Range(available_tables) |->
        CASE t = "kundenstamm" -> <<"rechtsform", "umsatz", "datum">>
          [] t = "softfact_vw" -> <<"rechtsform", "umsatz">>
          [] OTHER -> <<"umsatz">>]

\* the column types _detect_column_types derives for the tables of the store
TableColumnTypes ==
    [t \in Range(available_tables) |->
        CASE t = "kundenstamm" -> [rechtsform |-> TEXT, umsatz |-> NUMBER, datum |-> DATE]
          [] t = "softfact_vw" -> [rechtsform |-> TEXT, umsatz |-> NUMBER]
          [] OTHER -> [umsatz |-> NUMBER]]

Row(r, u, d) == [rechtsform |-> r, umsatz |-> u, datum |-> d]

txt_a == <<"a">>
txt_ab == <<"a", "b">>
txt_Ab == <<"A", "b">>

Iso(y, m, d) == StrftimeYmd(DateTime(y, m, d))

TableRows ==
    [t \in Range(available_tables) |->
        IF t = "kundenstamm"
        THEN << Row(Str(txt_a), Num(5), Str(Iso(2024, 1, 15))),
                Row(Str(txt_ab), Num(7), Str(Iso(2024, 2, 1))),
                Row(None, Num(5), None) >>
        ELSE IF t = "softfact_vw"
        THEN << [rechtsform |-> Str(txt_ab), umsatz |-> Num(7)],
                [rechtsform |-> Str(txt_a), umsatz |-> Num(5)] >>
        ELSE <<>>]

(***************************************************************************)
(* Initial state of the DataHandler: __init__ followed by                  *)
(* _initialize_data on the default table.                                  *)
(***************************************************************************)
InitHandler ==
    /\ current_table = "kundenstamm"
    /\ column_names = TableColumns["kundenstamm"]
    /\ column_types = TableColumnTypes["kundenstamm"]
    /\ data = TableRows["kundenstamm"]
    /\ filtered_data = TableRows["kundenstamm"]
    /\ global_filters = <<>>
    /\ sampling_rules = <<>>
    /\ results = <<>>

InitFile ==
    /\ config_file = [exists |-> FALSE, global_filters |-> <<>>, sampling_rules |-> <<>>]
    /\ saved_from = [phase |-> "none", global_filters |-> <<>>, sampling_rules |-> <<>>]

\* no rule taken yet
NoRule == <<>>

InitRun ==
    /\ pc = "idle"
    /\ rule_i = 0
    /\ loop_rule = NoRule
    /\ stack = <<>>
    /\ sampled_indices = {}
    /\ rule_results = <<>>
    /\ drawn = <<>>

NoPredOut ==
    [done |-> FALSE, m |-> <<>>, sql |-> <<>>, where |-> BuildWhere(<<>>), selected |-> FALSE]

InitPredIdle ==
    /\ pin = [filters |-> <<>>, row |-> <<>>]
    /\ pout = NoPredOut

(***************************************************************************)
(* Evaluation of the predicates on bounded inputs: every filter_config the *)
(* two dialogs and from_dict can produce over short texts, against rows    *)
(* holding every kind of value the store returns.                          *)
(***************************************************************************)
NoneText == <<"N", "o", "n", "e">>

PredTextAlphabet == {"a", "A", "n"}
PredPatternAlphabet == {"A", "n", "_", "%"}

PredTexts == SeqsUpTo(PredTextAlphabet, MaxStrLen)
PredPatterns == SeqsUpTo(PredPatternAlphabet, MaxStrLen)
PredValueLists == SeqsUpTo({<<"a">>, <<"A">>, NoneText}, MaxStrLen)

PredNumbers == {Num(0), Num(5)}
PredDates == {DateTime(2024, 1, 15), DateTime(2024, 2, 1)}

TextConfigs ==
    {<<>>}
    \cup {[type |-> "equals", values |-> l] : l \in PredValueLists}
    \cup {[type |-> "contains", pattern |-> q] : q \in PredPatterns}

\* the dict with the key lo when a # None and the key hi when b # None
RangeConfig(lo, a, hi, b) ==
    [k \in ({lo} \cap (IF a = None THEN {} ELSE {lo})) \cup ({hi} \cap (IF b = None THEN {} ELSE {hi}))
        |-> IF k = lo THEN a ELSE b]

NumberConfigs ==
    {RangeConfig("min", a, "max", b) : a \in PredNumbers \cup {None}, b \in PredNumbers \cup {None}}

DateConfigs ==
    {RangeConfig("from", a, "to", b) : a \in PredDates \cup {None}, b \in PredDates \cup {None}}

PredFilters ==
    {DimensionalFilter("rechtsform", TEXT, c) : c \in TextConfigs}
    \cup {DimensionalFilter("umsatz", NUMBER, c) : c \in NumberConfigs}
    \cup {DimensionalFilter("datum", DATE, c) : c \in DateConfigs}

\* the filters combined into lists of two and more
ComboFilters ==
    { DimensionalFilter("rechtsform", TEXT, [type |-> "equals", values |-> << <<"a">>, <<"A">> >>]),
      DimensionalFilter("rechtsform", TEXT, [type |-> "contains", pattern |-> <<"n">>]),
      DimensionalFilter("umsatz", NUMBER, RangeConfig("min", Num(0), "max", Num(5))),
      DimensionalFilter("datum", DATE, RangeConfig("from", DateTime(2024, 1, 15), "to", None)),
      DimensionalFilter("datum", DATE, <<>>) }

PredTextValues == {None} \cup {Str(x) : x \in PredTexts}
PredNumberValues == {None, Num(0), Num(5), Num(7), Str(<<"5">>), Str(<<"1", ",", "5">>)}
PredDateValues ==
    {None, Str(Iso(2024, 1, 15)), Str(Iso(2024, 2, 1)), Str(StrftimeDmy(DateTime(2024, 1, 15)))}

PredRows ==
    {Row(x, Num(5), Str(Iso(2024, 1, 15))) : x \in PredTextValues}
    \cup {Row(Str(<<"a">>), x, Str(Iso(2024, 1, 15))) : x \in PredNumberValues}
    \cup {Row(Str(<<"a">>), Num(5), x) : x \in PredDateValues}

PredInputs ==
    {[filters |-> <<f>>, row |-> r] : f \in PredFilters, r \in PredRows}
    \cup {[filters |-> fs, row |-> r] :
            fs \in UNION {[1..k -> ComboFilters] : k \in 2..MaxFilters}, r \in PredRows}

\* the sampling rule with the predicate of filter f
RuleOf(f) == SamplingRule("rule", f.column, f.column_type, f.filter_config, 1)

\* is row among the rows apply_global_filters selects for filters: the rows of
\* the WHERE clause, every row when there is no clause or the query raises
Selected(filters, row) ==
    LET w == BuildWhere(filters) IN
    IF w.raised \/ w.where_clauses = <<>> \/ ~SqlBindOk(WhereClause(filters), w.all_params)
    THEN TRUE
    ELSE SqlHolds(WhereClause(filters), w.all_params, row)

InitPred ==
    /\ InitHandler /\ InitFile /\ InitRun
    /\ pin \in PredInputs
    /\ pout = NoPredOut

\* evaluate matches, to_sql_where and the WHERE clause on the input
PredEval ==
    /\ ~pout.done
    /\ pin.filters # <<>>
    /\ pout' = [done |-> TRUE,
                m |-> [i \in 1..Len(pin.filters) |-> matches(RuleOf(pin.filters[i]), pin.row)],
                sql |-> [i \in 1..Len(pin.filters) |-> to_sql_where(pin.filters[i])],
                where |-> BuildWhere(pin.filters),
                selected |-> Selected(pin.filters, pin.row)]
    /\ UNCHANGED <<pin, handlerVars, fileVars, runVars>>

NextPred == PredEval

SpecPred == InitPred /\ [][NextPred]_vars

(***************************************************************************)
(* DataHandler.generate_stratified_sample.  One step per iteration of the  *)
(* loop over sampling_rules; random.sample is a choice among the ordered   *)
(* selections without repetition.                                          *)
(***************************************************************************)
Min(a, b) == IF a <= b THEN a ELSE b
Max(a, b) == IF a >= b THEN a ELSE b

\* result = row.copy(); result['_rule_name'] = rule.name
Tagged(row, name) ==
    [k \in DOMAIN row \cup {"_rule_name"} |-> IF k = "_rule_name" THEN Str(name) ELSE row[k]]

\* the indices of matching_records, ignoring the rows drawn before
MatchingRecordsAgain(rule, rows, sampled) ==
    {idx \in 1..Len(rows) : matches(rule, rows[idx])}

\* the indices of matching_records, without the test of the rule
MatchingRecordsAny(rule, rows, sampled) ==
    {idx \in 1..Len(rows) : idx \notin sampled}

\* the indices of matching_records: not sampled yet and matching the rule
MatchingRecords(rule, rows, sampled) ==
    {idx \in 1..Len(rows) : idx \notin sampled /\ matches(rule, rows[idx])}

\* every matching record is taken, whatever the rule asks for
SampleSizeAll(sample_count, available) == available

\* sample_size = min(rule.sample_count, len(matching_records))
SampleSize(sample_count, available) == Min(sample_count, available)

\* random.sample(population, k): the ordered selections of k distinct elements
RandomSamples(population, k) ==
    {sq \in [1..k -> population] : \A a, b \in 1..k : a # b => sq[a] # sq[b]}

\* the report line with the requested count in place of the drawn one
RuleReportRequested(rule, sample_size) ==
    IF sample_size > 0
    THEN [name |-> rule.name, n |-> rule.sample_count, text |-> "samples"]
    ELSE [name |-> rule.name, n |-> 0, text |-> "samples (no matches)"]

\* f"{rule.name}: {sample_size} samples" / f"{rule.name}: 0 samples (no matches)"
RuleReport(rule, sample_size) ==
    IF sample_size > 0
    THEN [name |-> rule.name, n |-> sample_size, text |-> "samples"]
    ELSE [name |-> rule.name, n |-> 0, text |-> "samples (no matches)"]

\* a run that starts on the results of the run before
RunStartStale == [results |-> results, sampled_indices |-> {}, rule_results |-> <<>>]

\* self.results = []; sampled_indices = set(); rule_results = []
RunStart == [results |-> <<>>, sampled_indices |-> {}, rule_results |-> <<>>]

\* a row after "result = row.copy()" was tagged: the tag went to the row itself
RowTaggedInPlace(row, name) == Tagged(row, name)

\* a row of filtered_data after "result = row.copy()" was tagged: as before
RowCopied(row, name) == row

\* the locals of the run that is inside its progress callback
Frame ==
    [loop_rule |-> loop_rule, rule_i |-> rule_i, sampled_indices |-> sampled_indices,
     rule_results |-> rule_results, drawn |-> drawn]

\* DataHandler.generate_stratified_sample up to the loop; called from a handler
\* that runs inside the progress callback of another run, that run stays
\* suspended until this one returns
GenerateBegin ==
    /\ pc # "sampling"
    /\ pc = "callback" => Len(stack) < MaxNesting
    /\ stack' = IF pc = "callback" THEN Append(stack, Frame) ELSE stack
    /\ pc' = "sampling"
    /\ results' = RunStart.results
    /\ sampled_indices' = RunStart.sampled_indices
    /\ rule_results' = RunStart.rule_results
    /\ rule_i' = 0
    /\ loop_rule' = NoRule
    /\ drawn' = <<>>
    /\ UNCHANGED <<current_table, column_names, column_types, data, filtered_data,
                   global_filters, sampling_rules, fileVars, predVars>>

\* the body of one iteration for the rule r, from matching_records to the
\* report line
DrawFor(r) ==
    LET matching_records == MatchingRecords(r, filtered_data, sampled_indices)
        sample_size == SampleSize(r.sample_count, Cardinality(matching_records))
    IN IF sample_size > 0
       THEN \E sampled \in RandomSamples(matching_records, sample_size) :
               /\ sampled_indices' = sampled_indices \cup Range(sampled)
               /\ results' = results \o
                     [h \in 1..sample_size |-> Tagged(filtered_data[sampled[h]], r.name)]
               /\ filtered_data' =
                     [idx \in 1..Len(filtered_data) |->
                         IF idx \in Range(sampled) THEN RowCopied(filtered_data[idx], r.name)
                         ELSE filtered_data[idx]]
               /\ drawn' = drawn \o
                     [h \in 1..sample_size |-> [idx |-> sampled[h], rule |-> rule_i + 1]]
               /\ rule_results' = Append(rule_results, RuleReport(r, sample_size))
       ELSE /\ rule_results' = Append(rule_results, RuleReport(r, sample_size))
            /\ UNCHANGED <<sampled_indices, results, filtered_data, drawn>>

\* one iteration of "for i, rule in enumerate(self.sampling_rules)" with a
\* progress callback that returns at once
GenerateRule ==
    /\ pc = "sampling"
    /\ rule_i < Len(sampling_rules)
    /\ loop_rule' = sampling_rules[rule_i + 1]
    /\ DrawFor(sampling_rules[rule_i + 1])
    /\ rule_i' = rule_i + 1
    /\ UNCHANGED <<pc, stack, current_table, column_names, column_types, data,
                   global_filters, sampling_rules, fileVars, predVars>>

\* the head of one iteration under the progress callback of the UI: the loop
\* takes the next rule and progress_callback enters root.update(), which runs
\* the handlers of the events that are pending
GenerateCallback ==
    /\ pc = "sampling"
    /\ rule_i < Len(sampling_rules)
    /\ loop_rule' = sampling_rules[rule_i + 1]
    /\ pc' = "callback"
    /\ UNCHANGED <<rule_i, stack, sampled_indices, rule_results, drawn, handlerVars,
                   fileVars, predVars>>

\* root.update() returns: the body of the iteration, for the rule the loop
\* took before the callback, on the filtered_data and the results of now
GenerateBody ==
    /\ pc = "callback"
    /\ DrawFor(loop_rule)
    /\ rule_i' = rule_i + 1
    /\ pc' = "sampling"
    /\ UNCHANGED <<loop_rule, stack, current_table, column_names, column_types, data,
                   global_filters, sampling_rules, fileVars, predVars>>

\* the loop finds no further rule: return rule_results; a run started inside
\* the callback of another run returns into that callback
GenerateReturn ==
    /\ pc = "sampling"
    /\ rule_i >= Len(sampling_rules)
    /\ IF stack = <<>>
       THEN /\ pc' = "returned"
            /\ UNCHANGED <<rule_i, loop_rule, stack, sampled_indices, rule_results, drawn>>
       ELSE LET outer == stack[Len(stack)]
            IN /\ pc' = "callback"
               /\ loop_rule' = outer.loop_rule
               /\ rule_i' = outer.rule_i
               /\ sampled_indices' = outer.sampled_indices
               /\ rule_results' = outer.rule_results
               /\ drawn' = outer.drawn
               /\ stack' = SubSeq(stack, 1, Len(stack) - 1)
    /\ UNCHANGED <<handlerVars, fileVars, predVars>>

(***************************************************************************)
(* The sampling run on bounded inputs: any filtered_data of up to MaxRows  *)
(* rows, any list of up to MaxRules rules, with or without results left    *)
(* by an earlier run.                                                      *)
(***************************************************************************)
name_A == <<"A">>
name_B == <<"B">>

SamplingRows ==
    { Row(Str(txt_a), Num(5), Str(Iso(2024, 1, 15))),
      Row(Str(txt_ab), Num(7), Str(Iso(2024, 2, 1))),
      Row(Str(txt_a), None, None) }

SamplingRulePool ==
    { SamplingRule(name_A, "rechtsform", TEXT, [type |-> "equals", values |-> <<txt_a>>], 1),
      SamplingRule(name_B, "umsatz", NUMBER, RangeConfig("min", Num(5), "max", None), MaxRows + 1),
      SamplingRule(name_A, "umsatz", NUMBER, RangeConfig("min", Num(5), "max", None), -1),
      SamplingRule(name_B, "datum", DATE, RangeConfig("from", DateTime(2024, 1, 15), "to", None), 1) }

StaleResults == {<<>>, <<Tagged(Row(Str(txt_Ab), Num(0), None), <<"Z">>)>>}

InitSampling ==
    /\ current_table = "kundenstamm"
    /\ column_names = TableColumns["kundenstamm"]
    /\ column_types = TableColumnTypes["kundenstamm"]
    /\ filtered_data \in SeqsUpTo(SamplingRows, MaxRows)
    /\ data = filtered_data
    /\ global_filters = <<>>
    /\ sampling_rules \in SeqsUpTo(SamplingRulePool, MaxRules)
    /\ results \in StaleResults
    /\ InitFile /\ InitRun /\ InitPredIdle

\* DataHandler.clear_results(), between two runs
clear_results ==
    /\ pc \in {"idle", "returned"}
    /\ results' = <<>>
    /\ pc' = "idle" /\ rule_i' = 0 /\ loop_rule' = NoRule /\ stack' = <<>>
    /\ sampled_indices' = {} /\ rule_results' = <<>> /\ drawn' = <<>>
    /\ UNCHANGED <<current_table, column_names, column_types, data, filtered_data,
                   global_filters, sampling_rules, fileVars, predVars>>

NextSampling == GenerateBegin \/ GenerateRule \/ GenerateReturn \/ clear_results

SpecSampling == InitSampling /\ [][NextSampling]_vars

(***************************************************************************)
(* The sampling run on a dataset of ten rows and two rules A and B that    *)
(* both match rows 1 to 5 and ask for three rows each.  Rule A selects on  *)
(* rechtsform, rule B on umsatz; each of them matches rows 1 to 5 only, or *)
(* one row more, and either of them is declared first.                     *)
(***************************************************************************)
FixtureData ==
    [idx \in 1..10 |->
        IF idx <= 5 THEN Row(Str(txt_a), Num(5), None)
        ELSE IF idx = 6 THEN Row(Str(txt_ab), Num(0), None)
        ELSE IF idx = 7 THEN Row(Str(txt_Ab), Num(7), None)
        ELSE Row(Str(txt_Ab), Num(0), None)]

FixtureRulesA ==
    { SamplingRule(name_A, "rechtsform", TEXT, [type |-> "equals", values |-> <<txt_a>>], 3),
      SamplingRule(name_A, "rechtsform", TEXT, [type |-> "equals", values |-> <<txt_a, txt_ab>>], 3) }

FixtureRulesB ==
    { SamplingRule(name_B, "umsatz", NUMBER, RangeConfig("min", Num(5), "max", Num(5)), 3),
      SamplingRule(name_B, "umsatz", NUMBER, RangeConfig("min", Num(5), "max", None), 3) }

InitFixture ==
    /\ current_table = "kundenstamm"
    /\ column_names = TableColumns["kundenstamm"]
    /\ column_types = TableColumnTypes["kundenstamm"]
    /\ filtered_data = FixtureData
    /\ data = filtered_data
    /\ global_filters = <<>>
    /\ \E a \in FixtureRulesA, b \in FixtureRulesB : sampling_rules \in {<<a, b>>, <<b, a>>}
    /\ results = <<>>
    /\ InitFile /\ InitRun /\ InitPredIdle

SpecFixture == InitFixture /\ [][NextSampling]_vars

(***************************************************************************)
(* DataHandler.detect_column_type(values).                                 *)
(***************************************************************************)
\* the formats of date_formats: the separator and the places of year, month, day
date_formats ==
    << [sep |-> "-", y |-> 1, m |-> 2, d |-> 3], [sep |-> "-", y |-> 3, m |-> 2, d |-> 1],
       [sep |-> "/", y |-> 3, m |-> 2, d |-> 1], [sep |-> ".", y |-> 3, m |-> 2, d |-> 1],
       [sep |-> "/", y |-> 1, m |-> 2, d |-> 3], [sep |-> ".", y |-> 1, m |-> 2, d |-> 3],
       [sep |-> "/", y |-> 3, m |-> 1, d |-> 2], [sep |-> "-", y |-> 3, m |-> 1, d |-> 2],
       [sep |-> ".", y |-> 3, m |-> 1, d |-> 2] >>

\* does datetime.strptime(s, fmt) succeed
StrptimeFormatOk(s, fmt) ==
    LET f == Fields(s, fmt.sep) IN
    /\ Len(f) = 3
    /\ \A i \in 1..3 : AllDigits(f[i])
    /\ Len(f[fmt.y]) = 4
    /\ Len(f[fmt.m]) \in 1..2 /\ DigitsVal(f[fmt.m]) \in 1..12
    /\ Len(f[fmt.d]) \in 1..2
    /\ DigitsVal(f[fmt.d]) \in 1..DaysIn(DigitsVal(f[fmt.y]), DigitsVal(f[fmt.m]))

\* str.replace(old, new), old being one character
RECURSIVE Replace(_, _, _)
Replace(s, old, new) ==
    IF s = <<>> THEN <<>>
    ELSE (IF s[1] = old THEN new ELSE <<s[1]>>) \o Replace(Tail(s), old, new)

\* the separator branches with the earlier separator taken as the decimal one
NormalizeDecimalEarlier(val_str) ==
    LET has(c) == \E i \in 1..Len(val_str) : val_str[i] = c
        rindex(c) == CHOOSE i \in 1..Len(val_str) :
                        val_str[i] = c /\ \A j \in (i + 1)..Len(val_str) : val_str[j] # c
    IN IF has(".") /\ has(",")
       THEN IF rindex(",") < rindex(".")
            THEN Replace(Replace(val_str, ".", <<>>), ",", <<".">>)
            ELSE Replace(val_str, ",", <<>>)
       ELSE IF has(",") THEN Replace(val_str, ",", <<".">>)
       ELSE val_str

\* val_str after the separator branches of the numeric test
NormalizeDecimal(val_str) ==
    LET has(c) == \E i \in 1..Len(val_str) : val_str[i] = c
        rindex(c) == CHOOSE i \in 1..Len(val_str) :
                        val_str[i] = c /\ \A j \in (i + 1)..Len(val_str) : val_str[j] # c
    IN IF has(".") /\ has(",")
       THEN IF rindex(",") > rindex(".")
            THEN Replace(Replace(val_str, ".", <<>>), ",", <<".">>)
            ELSE Replace(val_str, ",", <<>>)
       ELSE IF has(",") THEN Replace(val_str, ",", <<".">>)
       ELSE val_str

\* does float(s) succeed, for a text of digits, '.', '-' and other characters:
\* an optional sign, then digits with at most one '.', one digit at least
PyFloatOk(s) ==
    LET u == IF s # <<>> /\ s[1] = "-" THEN Tail(s) ELSE s
        f == Fields(u, ".")
    IN /\ Len(f) \in 1..2
       /\ \A i \in 1..Len(f) : \A j \in 1..Len(f[i]) : IsDigit(f[i][j])
       /\ \E i \in 1..Len(f) : f[i] # <<>>

\* "for value in values[:20]"
SampleCap == 20

\* the test with "at least half" in place of "more than half"
MajorityOrHalf(count, n) == 2 * count >= n

\* "count > len(values[:20]) * 0.5"
Majority(count, n) == 2 * count > n

detect_column_type(values) ==
    IF values = <<>> THEN UNKNOWN
    ELSE LET sample == SubSeq(values, 1, Min(Len(values), SampleCap))
             date_count ==
                 Cardinality({i \in 1..Len(sample) :
                     /\ Truthy(sample[i])
                     /\ \E k \in 1..Len(date_formats) :
                           StrptimeFormatOk(PyStr(sample[i]), date_formats[k])})
             number_count ==
                 Cardinality({i \in 1..Len(sample) :
                     /\ Truthy(sample[i])
                     /\ PyFloatOk(Replace(NormalizeDecimal(PyStr(sample[i])), " ", <<>>))})
         IN IF Majority(date_count, Len(sample)) THEN DATE
            ELSE IF Majority(number_count, Len(sample)) THEN NUMBER
            ELSE TEXT

(***************************************************************************)
(* detect_column_type on bounded samples: samples of up to MaxSample       *)
(* values holding a number of date texts (in every format) among texts,    *)
(* numbers or blanks, and one-value samples of every short numeric text.   *)
(***************************************************************************)
MaxSample == 21
MaxNumLen == 4

\* 15 January 2024 in the k-th format
DateText(k) ==
    LET fmt == date_formats[k]
        part(p) == IF fmt.y = p THEN <<"2", "0", "2", "4">>
                   ELSE IF fmt.m = p THEN <<"0", "1">> ELSE <<"1", "5">>
    IN part(1) \o <<fmt.sep>> \o part(2) \o <<fmt.sep>> \o part(3)

Fillers == {Str(<<"a">>), Str(<<"1", ",", "5">>), None}

\* n values of which k are date texts, at the head or at the tail
DateSample(n, k, head, filler) ==
    [i \in 1..n |->
        IF (head /\ i <= k) \/ (~head /\ i > n - k)
        THEN Str(DateText(((i - 1) % Len(date_formats)) + 1))
        ELSE filler]

NumericAlphabet == {"1", ".", ",", " "}

NumericTexts ==
    SeqsUpTo(NumericAlphabet, MaxNumLen)
    \cup { <<"1", ".", "2", "3", "4", ",", "5", "6">>, <<"1", ",", "2", "3", "4", ".", "5", "6">>,
           <<"-", "1", ",", "5">>, <<"1", " ", "2", "3", "4", ",", "5">> }

DetectInputs ==
    UNION {{[values |-> DateSample(n, k, head, filler)] :
                k \in 0..n, head \in BOOLEAN, filler \in Fillers} : n \in 0..MaxSample}
    \cup {[values |-> <<Str(s)>>] : s \in NumericTexts}
    \cup {[values |-> <<Str(s), Str(<<"a">>)>>] : s \in NumericTexts}

NoDetectOut == [done |-> FALSE, column_type |-> UNKNOWN, detected_type |-> UNKNOWN, val_str |-> <<>>]

InitDetect ==
    /\ InitHandler /\ InitFile /\ InitRun
    /\ pin \in DetectInputs
    /\ pout = NoDetectOut

\* "values = [row.get(column) for row in sample_data if row.get(column)]"
TruthyValues(values) == SelectSeq(values, Truthy)

\* self.detect_column_type(pin.values) as column_type, with the val_str of each
\* value, and the detected_type _detect_column_types gets for a column holding
\* pin.values
DetectEval ==
    /\ ~pout.done
    /\ pout' = [done |-> TRUE,
                column_type |-> detect_column_type(pin.values),
                detected_type |-> detect_column_type(TruthyValues(pin.values)),
                val_str |-> [i \in 1..Len(pin.values) |->
                                NormalizeDecimal(PyStr(pin.values[i]))]]
    /\ UNCHANGED <<pin, handlerVars, fileVars, runVars>>

SpecDetect == InitDetect /\ [][DetectEval]_vars

(***************************************************************************)
(* DimensionalFilter.get_description / SamplingRule.get_description: the   *)
(* DATE branch calls strftime on every truthy bound.                       *)
(***************************************************************************)
\* does get_description raise (AttributeError: a bound that is not a datetime)
DescriptionRaises(obj) ==
    /\ obj.filter_config # <<>>
    /\ obj.column_type = DATE
    /\ \E k \in {"from", "to"} :
          Truthy(Get(obj.filter_config, k)) /\ Get(obj.filter_config, k).t # "datetime"

\* update_filters_display / update_rules_display: one description per entry
DisplayRaises(objs) == \E i \in 1..Len(objs) : DescriptionRaises(objs[i])

(***************************************************************************)
(* The store queries of the DataHandler.                                   *)
(***************************************************************************)
\* Database.get_filtered_data: SELECT * FROM table WHERE where_clause
get_filtered_data(table, where_clause, params) ==
    IF \/ ~SqlBindOk(where_clause, params)
       \/ \E i \in 1..Len(where_clause) :
             where_clause[i].k = "col" /\ where_clause[i].w \notin Range(TableColumns[table])
    THEN [raised |-> TRUE, rows |-> <<>>]
    ELSE [raised |-> FALSE, rows |-> FilterSeq(TableRows[table], where_clause, params)]

\* DataHandler.apply_global_filters: the new filtered_data; store_fails is a
\* store that raises on the query
apply_global_filters(filters, table, rows, store_fails) ==
    LET w == BuildWhere(filters) IN
    IF w.raised THEN rows
    ELSE IF w.where_clauses # <<>>
    THEN LET q == get_filtered_data(table, JoinAnd(w.where_clauses), w.all_params)
         IN IF store_fails \/ q.raised THEN rows ELSE q.rows
    ELSE rows

\* where the store can raise inside _initialize_data: on the schema queries
\* (get_all_tables, get_table_columns) or on the SELECT of get_all_data
FailPoints == {"none", "tables", "data"}

\* DataHandler._initialize_data: the fields it leaves, from the fields cur;
\* the exception is logged and swallowed
initialize_data(table, cur, fail_at) ==
    CASE fail_at = "tables" -> cur
      [] fail_at = "data" -> [cur EXCEPT !.column_names = TableColumns[table],
                                         !.column_types = TableColumnTypes[table]]
      [] OTHER -> [column_names |-> TableColumns[table],
                   column_types |-> TableColumnTypes[table],
                   data |-> TableRows[table],
                   filtered_data |-> TableRows[table]]

Loaded == [column_names |-> column_names, column_types |-> column_types,
           data |-> data, filtered_data |-> filtered_data]

\* DataHandler.get_available_filter_columns; exclude is the position of the
\* filter under edit, 0 for none
get_available_filter_columns(exclude) ==
    {c \in Range(column_names) :
        \A i \in 1..Len(global_filters) : i # exclude => global_filters[i].column # c}

(***************************************************************************)
(* DataHandler.save_configuration / load_configuration.  The JSON document *)
(* holds the dictionaries of to_dict; strings, numbers, null and lists are *)
(* written and read back as they are, datetime bounds go through strftime  *)
(* and strptime.                                                           *)
(***************************************************************************)
\* filter_dict['filter_config'][k].strftime('%Y-%m-%d')
SaveDate(v) == Str(StrftimeYmd(v))

\* the two "if filter_config.get(k): filter_config[k] = ...strftime(...)" of
\* one entry; the dictionary is the live filter_config of the object, so cfg
\* is what the object holds afterwards, also when the second bound raises
SaveDates(cfg) ==
    LET date_from == Get(cfg, "from")
        date_to == Get(cfg, "to")
    IN IF Truthy(date_from) /\ date_from.t # "datetime"
       THEN [raised |-> TRUE, cfg |-> cfg]
       ELSE LET c1 == IF Truthy(date_from)
                      THEN [cfg EXCEPT !["from"] = SaveDate(date_from)] ELSE cfg
            IN IF Truthy(date_to) /\ date_to.t # "datetime"
               THEN [raised |-> TRUE, cfg |-> c1]
               ELSE [raised |-> FALSE,
                     cfg |-> IF Truthy(date_to)
                             THEN [c1 EXCEPT !["to"] = SaveDate(date_to)] ELSE c1]

\* one of the two conversion loops of save_configuration over objs (filters
\* or rules): the objects as the loop leaves them, up to the entry that raises
RECURSIVE SaveObjects(_)
SaveObjects(objs) ==
    IF objs = <<>> THEN [raised |-> FALSE, objs |-> <<>>]
    ELSE LET d == IF objs[1].column_type = DATE THEN SaveDates(objs[1].filter_config)
                  ELSE [raised |-> FALSE, cfg |-> objs[1].filter_config]
             first == [objs[1] EXCEPT !.filter_config = d.cfg]
         IN IF d.raised THEN [raised |-> TRUE, objs |-> <<first>> \o Tail(objs)]
            ELSE LET rest == SaveObjects(Tail(objs))
                 IN [raised |-> rest.raised, objs |-> <<first>> \o rest.objs]

\* DataHandler.save_configuration: what it leaves in memory and whether it
\* raised before the file was opened
save_configuration(filters, rules) ==
    LET f == SaveObjects(filters) IN
    IF f.raised THEN [raised |-> TRUE, global_filters |-> f.objs, sampling_rules |-> rules]
    ELSE LET r == SaveObjects(rules)
         IN [raised |-> r.raised, global_filters |-> f.objs, sampling_rules |-> r.objs]

\* the two "if filter_config.get(k): ... datetime.strptime(..., '%Y-%m-%d')"
LoadDates(cfg) ==
    LET bad(v) == Truthy(v) /\ (v.t # "str" \/ ~StrptimeYmdOk(v.s))
        conv(v) == IF Truthy(v) THEN StrptimeYmd(v.s) ELSE v
    IN IF bad(Get(cfg, "from")) \/ bad(Get(cfg, "to"))
       THEN [raised |-> TRUE, cfg |-> cfg]
       ELSE [raised |-> FALSE,
             cfg |-> [k \in DOMAIN cfg |-> IF k \in {"from", "to"} THEN conv(cfg[k]) ELSE cfg[k]]]

\* the test of the column that lets every entry through
KnownColumnAny(column, types) == TRUE

\* "if filter_dict['column'] in self.column_types"
KnownColumn(column, types) == column \in DOMAIN types

\* one of the two loops of load_configuration over the entries dicts of the
\* document: the list built so far when the loop ends or raises (KeyError on
\* an entry without 'column', ValueError on a date text strptime rejects)
RECURSIVE LoadObjects(_, _)
LoadObjects(dicts, types) ==
    IF dicts = <<>> THEN [raised |-> FALSE, objs |-> <<>>]
    ELSE IF "column" \notin DOMAIN dicts[1] THEN [raised |-> TRUE, objs |-> <<>>]
    ELSE IF ~KnownColumn(dicts[1].column, types) THEN LoadObjects(Tail(dicts), types)
    ELSE LET d == IF dicts[1].column_type = DATE THEN LoadDates(dicts[1].filter_config)
                  ELSE [raised |-> FALSE, cfg |-> dicts[1].filter_config]
         IN IF d.raised THEN [raised |-> TRUE, objs |-> <<>>]
            ELSE LET rest == LoadObjects(Tail(dicts), types)
                 IN [raised |-> rest.raised,
                     objs |-> <<[dicts[1] EXCEPT !.filter_config = d.cfg]>> \o rest.objs]

\* DataHandler.load_configuration on an existing document: filters and rules
\* as it leaves them (the rules are untouched when the filters raise), and the
\* pair of lengths it returns
load_configuration(doc, types, rules) ==
    LET f == LoadObjects(doc.global_filters, types) IN
    IF f.raised
    THEN [raised |-> TRUE, global_filters |-> f.objs, sampling_rules |-> rules, returned |-> <<>>]
    ELSE LET r == LoadObjects(doc.sampling_rules, types)
         IN [raised |-> r.raised, global_filters |-> f.objs, sampling_rules |-> r.objs,
             returned |-> IF r.raised THEN <<>> ELSE <<Len(f.objs), Len(r.objs)>>]

(***************************************************************************)
(* The handlers of SimpleSampleTestingApp, one action per handler and one  *)
(* step per rule of a sampling run.  A handler starts from the event loop: *)
(* the locals of a finished run are gone when it runs.                     *)
(***************************************************************************)
\* a handler that runs inside the progress callback of a run leaves the locals
\* of that run as they are
RunReset ==
    IF pc = "callback" THEN UNCHANGED runVars
    ELSE /\ pc' = "idle"
         /\ rule_i' = 0
         /\ loop_rule' = NoRule
         /\ stack' = <<>>
         /\ sampled_indices' = {}
         /\ rule_results' = <<>>
         /\ drawn' = <<>>

\* what GlobalFilterDialog.ok_clicked can hand back
DialogFilters ==
    { DimensionalFilter("rechtsform", TEXT, [type |-> "equals", values |-> <<txt_a>>]),
      DimensionalFilter("datum", DATE, RangeConfig("from", DateTime(2024, 2, 1), "to", None)) }

\* what SamplingRuleDialog.ok_clicked can hand back
DialogRules ==
    { SamplingRule(name_B, "datum", DATE, RangeConfig("from", None, "to", DateTime(2024, 1, 15)), 1) }

\* the dialog reads col_type = self.column_types[column] for the chosen column
DialogFor(obj, columns) ==
    /\ obj.column \in columns
    /\ obj.column \in DOMAIN column_types
    /\ column_types[obj.column] = obj.column_type

\* SimpleSampleTestingApp.apply_global_filters
ui_apply_global_filters(filters, store_fails) ==
    IF data = <<>> THEN filtered_data
    ELSE apply_global_filters(filters, current_table, data, store_fails)

\* update_filters_display() followed by apply_global_filters(): the handler
\* ends at the display when a description raises
DisplayThenApply(filters, store_fails) ==
    IF DisplayRaises(filters) THEN filtered_data
    ELSE ui_apply_global_filters(filters, store_fails)

AddGlobalFilter ==
    /\ pc # "sampling"
    /\ column_names # <<>>
    /\ Len(global_filters) < MaxFilters
    /\ \E f \in DialogFilters, store_fails \in BOOLEAN :
          /\ DialogFor(f, get_available_filter_columns(0))
          /\ global_filters' = Append(global_filters, f)
          /\ filtered_data' = DisplayThenApply(Append(global_filters, f), store_fails)
    /\ RunReset
    /\ UNCHANGED <<current_table, column_names, column_types, data, sampling_rules, results,
                   fileVars, predVars>>

\* the dialog shows the bounds of the filter under edit with strftime, so it
\* does not open on a filter whose description raises
EditGlobalFilter ==
    /\ pc # "sampling"
    /\ \E index \in 1..Len(global_filters), f \in DialogFilters, store_fails \in BOOLEAN :
          /\ ~DescriptionRaises(global_filters[index])
          /\ DialogFor(f, get_available_filter_columns(index))
          /\ global_filters' = [global_filters EXCEPT ![index] = f]
          /\ filtered_data' =
                DisplayThenApply([global_filters EXCEPT ![index] = f], store_fails)
    /\ RunReset
    /\ UNCHANGED <<current_table, column_names, column_types, data, sampling_rules, results,
                   fileVars, predVars>>

\* del self.global_filters[index]
DeleteAt(sq, index) == SubSeq(sq, 1, index - 1) \o SubSeq(sq, index + 1, Len(sq))

DeleteGlobalFilter ==
    /\ pc # "sampling"
    /\ \E index \in 1..Len(global_filters), store_fails \in BOOLEAN :
          /\ global_filters' = DeleteAt(global_filters, index)
          /\ filtered_data' = DisplayThenApply(DeleteAt(global_filters, index), store_fails)
    /\ RunReset
    /\ UNCHANGED <<current_table, column_names, column_types, data, sampling_rules, results,
                   fileVars, predVars>>

ClearGlobalFilters ==
    /\ pc # "sampling"
    /\ global_filters # <<>>
    /\ global_filters' = <<>>
    /\ filtered_data' = DisplayThenApply(<<>>, FALSE)
    /\ RunReset
    /\ UNCHANGED <<current_table, column_names, column_types, data, sampling_rules, results,
                   fileVars, predVars>>

\* the "Apply Global Filters" button
ApplyGlobalFilters ==
    /\ pc # "sampling"
    /\ \E store_fails \in BOOLEAN :
          filtered_data' = ui_apply_global_filters(global_filters, store_fails)
    /\ RunReset
    /\ UNCHANGED <<current_table, column_names, column_types, data, global_filters,
                   sampling_rules, results, fileVars, predVars>>

\* the "Refresh Data" button: load_file -> refresh_data -> _initialize_data
RefreshData ==
    /\ pc # "sampling"
    /\ \E fail_at \in FailPoints :
          LET now == initialize_data(current_table, Loaded, fail_at)
          IN /\ column_names' = now.column_names
             /\ column_types' = now.column_types
             /\ data' = now.data
             /\ filtered_data' = now.filtered_data
    /\ RunReset
    /\ UNCHANGED <<current_table, global_filters, sampling_rules, results, fileVars, predVars>>

\* on_table_changed: set_table(selected_table) followed by load_file()
OnTableChanged ==
    /\ pc # "sampling"
    /\ \E selected_table \in Range(available_tables), fail_1 \in FailPoints, fail_2 \in FailPoints :
          /\ selected_table # current_table
          /\ LET switched == initialize_data(selected_table, Loaded, fail_1)
                 now == initialize_data(selected_table, switched, fail_2)
             IN /\ current_table' = selected_table
                /\ column_names' = now.column_names
                /\ column_types' = now.column_types
                /\ data' = now.data
                /\ filtered_data' = now.filtered_data
    /\ global_filters' = <<>>
    /\ sampling_rules' = <<>>
    /\ results' = <<>>
    /\ RunReset
    /\ UNCHANGED <<fileVars, predVars>>

AddSamplingRule ==
    /\ pc # "sampling"
    /\ column_names # <<>>
    /\ Len(sampling_rules) < MaxRules
    /\ \E rule \in DialogRules :
          /\ DialogFor(rule, Range(column_names))
          /\ sampling_rules' = Append(sampling_rules, rule)
    /\ RunReset
    /\ UNCHANGED <<current_table, column_names, column_types, data, filtered_data,
                   global_filters, results, fileVars, predVars>>

EditSamplingRule ==
    /\ pc # "sampling"
    /\ \E index \in 1..Len(sampling_rules), rule \in DialogRules :
          /\ ~DescriptionRaises(sampling_rules[index])
          /\ DialogFor(rule, Range(column_names))
          /\ sampling_rules' = [sampling_rules EXCEPT ![index] = rule]
    /\ RunReset
    /\ UNCHANGED <<current_table, column_names, column_types, data, filtered_data,
                   global_filters, results, fileVars, predVars>>

DeleteSamplingRule ==
    /\ pc # "sampling"
    /\ \E index \in 1..Len(sampling_rules) :
          sampling_rules' = DeleteAt(sampling_rules, index)
    /\ RunReset
    /\ UNCHANGED <<current_table, column_names, column_types, data, filtered_data,
                   global_filters, results, fileVars, predVars>>

ClearSamplingRules ==
    /\ pc # "sampling"
    /\ sampling_rules # <<>>
    /\ sampling_rules' = <<>>
    /\ RunReset
    /\ UNCHANGED <<current_table, column_names, column_types, data, filtered_data,
                   global_filters, results, fileVars, predVars>>

\* SimpleSampleTestingApp.generate_stratified_sample up to the first rule
GenerateSample ==
    /\ filtered_data # <<>>
    /\ sampling_rules # <<>>
    /\ GenerateBegin

ClearResults ==
    /\ pc # "sampling"
    /\ results # <<>>
    /\ results' = <<>>
    /\ RunReset
    /\ UNCHANGED <<current_table, column_names, column_types, data, filtered_data,
                   global_filters, sampling_rules, fileVars, predVars>>

\* the JSON document after DataHandler.save_configuration on filters, rules
Written(saved) ==
    IF saved.raised THEN config_file
    ELSE [exists |-> TRUE, global_filters |-> saved.global_filters,
          sampling_rules |-> saved.sampling_rules]

SaveConfiguration ==
    /\ pc # "sampling"
    /\ global_filters # <<>> \/ sampling_rules # <<>>
    /\ LET saved == save_configuration(global_filters, sampling_rules)
       IN /\ global_filters' = saved.global_filters
          /\ sampling_rules' = saved.sampling_rules
          /\ config_file' = Written(saved)
    /\ RunReset
    /\ UNCHANGED <<current_table, column_names, column_types, data, filtered_data, results,
                   saved_from, predVars>>

\* SimpleSampleTestingApp.load_configuration on a file the dialog can name
LoadConfiguration ==
    /\ pc # "sampling"
    /\ config_file.exists
    /\ \E store_fails \in BOOLEAN :
          LET loaded == load_configuration(config_file, column_types, sampling_rules)
          IN /\ global_filters' = loaded.global_filters
             /\ sampling_rules' = loaded.sampling_rules
             /\ filtered_data' =
                   IF loaded.raised \/ DisplayRaises(loaded.sampling_rules)
                   THEN filtered_data
                   ELSE DisplayThenApply(loaded.global_filters, store_fails)
    /\ RunReset
    /\ UNCHANGED <<current_table, column_names, column_types, data, results, fileVars, predVars>>

Init == InitHandler /\ InitFile /\ InitRun /\ InitPredIdle

Next ==
    \/ AddGlobalFilter \/ EditGlobalFilter \/ DeleteGlobalFilter \/ ClearGlobalFilters
    \/ ApplyGlobalFilters \/ RefreshData \/ OnTableChanged
    \/ AddSamplingRule \/ EditSamplingRule \/ DeleteSamplingRule \/ ClearSamplingRules
    \/ GenerateSample \/ GenerateRule \/ GenerateReturn \/ ClearResults
    \/ SaveConfiguration \/ LoadConfiguration

Spec == Init /\ [][Next]_vars

(***************************************************************************)
(* save_configuration and load_configuration of the DataHandler on bounded *)
(* configurations, as the dialogs build them, against one dataset.         *)
(***************************************************************************)
ConfigFilters ==
    DialogFilters \cup
    { DimensionalFilter("umsatz", NUMBER, RangeConfig("min", Num(5), "max", None)),
      DimensionalFilter("datum", DATE,
                        RangeConfig("from", DateTime(2024, 1, 15), "to", DateTime(2024, 12, 31))) }

ConfigRules ==
    DialogRules \cup
    { SamplingRule(name_A, "rechtsform", TEXT, [type |-> "equals", values |-> <<txt_a>>], 1),
      SamplingRule(name_B, "umsatz", NUMBER, RangeConfig("min", None, "max", Num(7)), 2) }

\* lists of filters on pairwise different columns, as add_global_filter and
\* edit_global_filter build them
DistinctColumns(filters) ==
    \A i, j \in 1..Len(filters) : i # j => filters[i].column # filters[j].column

InitConfig ==
    /\ current_table = "kundenstamm"
    /\ column_names = TableColumns["kundenstamm"]
    /\ column_types = TableColumnTypes["kundenstamm"]
    /\ data = TableRows["kundenstamm"]
    /\ global_filters \in {fs \in SeqsUpTo(ConfigFilters, MaxFilters) : DistinctColumns(fs)}
    /\ filtered_data = apply_global_filters(global_filters, "kundenstamm", data, FALSE)
    /\ sampling_rules \in SeqsUpTo(ConfigRules, MaxRules)
    /\ results = <<>>
    /\ InitFile /\ InitRun /\ InitPredIdle

\* DataHandler.save_configuration(filename)
ConfigSave ==
    /\ LET saved == save_configuration(global_filters, sampling_rules)
       IN /\ global_filters' = saved.global_filters
          /\ sampling_rules' = saved.sampling_rules
          /\ config_file' = Written(saved)
    /\ saved_from' = [phase |-> "saved", global_filters |-> global_filters,
                      sampling_rules |-> sampling_rules]
    /\ UNCHANGED <<current_table, column_names, column_types, data, filtered_data, results,
                   runVars, predVars>>

\* DataHandler.load_configuration(filename) on the file of the save
ConfigLoad ==
    /\ config_file.exists
    /\ LET loaded == load_configuration(config_file, column_types, sampling_rules)
       IN /\ global_filters' = loaded.global_filters
          /\ sampling_rules' = loaded.sampling_rules
    /\ saved_from' = [saved_from EXCEPT !.phase = IF @ = "saved" THEN "loaded" ELSE "none"]
    /\ UNCHANGED <<current_table, column_names, column_types, data, filtered_data, results,
                   config_file, runVars, predVars>>

NextConfig == ConfigSave \/ ConfigLoad

SpecConfig == InitConfig /\ [][NextConfig]_vars

(***************************************************************************)
(* load_configuration of a DataHandler on any table of the store, holding  *)
(* filters and rules or none, on a file that save_configuration wrote for  *)
(* the table kundenstamm.                                                  *)
(***************************************************************************)
\* the entries of objs on columns of the table
OnTable(objs, table) == {o \in objs : o.column \in Range(TableColumns[table])}

InitLoad ==
    /\ current_table \in Range(available_tables)
    /\ column_names = TableColumns[current_table]
    /\ column_types = TableColumnTypes[current_table]
    /\ data = TableRows[current_table]
    /\ filtered_data = data
    /\ global_filters \in SeqsUpTo(OnTable(DialogFilters, current_table), 1)
    /\ sampling_rules \in SeqsUpTo(OnTable(ConfigRules, current_table), 1)
    /\ results = <<>>
    /\ \E fs \in {l \in SeqsUpTo(ConfigFilters, MaxFilters) : DistinctColumns(l)},
          rs \in SeqsUpTo(ConfigRules, MaxRules) :
          LET saved == save_configuration(fs, rs)
          IN config_file = [exists |-> TRUE, global_filters |-> saved.global_filters,
                            sampling_rules |-> saved.sampling_rules]
    /\ saved_from = [phase |-> "none", global_filters |-> <<>>, sampling_rules |-> <<>>]
    /\ InitRun /\ InitPredIdle

SpecLoad == InitLoad /\ [][ConfigLoad]_vars

(***************************************************************************)
(* load_configuration of a DataHandler that holds filters and rules, on    *)
(* any file: none, one that is not JSON, one that save_configuration       *)
(* wrote, or one with an entry the loops raise on.                         *)
(***************************************************************************)
\* a date text that strptime(..., '%Y-%m-%d') rejects
txt_dmy == <<"1", "5", "-", "0", "1", "-", "2", "0", "2", "4">>

\* entries of a hand-written file: a malformed date bound, no 'column' key
BadFilterEntries ==
    { DimensionalFilter("datum", DATE, RangeConfig("from", Str(txt_dmy), "to", None)),
      [column_type |-> TEXT, filter_config |-> [type |-> "equals", values |-> <<txt_a>>]] }

BadRuleEntries ==
    { SamplingRule(name_A, "datum", DATE, RangeConfig("from", None, "to", Str(txt_dmy)), 1),
      [name |-> name_A, column_type |-> TEXT,
       filter_config |-> [type |-> "equals", values |-> <<txt_a>>], sample_count |-> 1] }

\* the lists a file can hold for a pool of well-formed entries and one of
\* entries that raise: well-formed lists, and lists with one raising entry
\* at any position
FileLists(good, bad, n) ==
    LET written == {SaveObjects(l).objs : l \in SeqsUpTo(good, n)}
    IN written \cup
       UNION {{[i \in 1..Len(l) |-> IF i = k THEN b ELSE l[i]] :
                  k \in 1..Len(l), b \in bad} : l \in written}

\* json |-> FALSE is a file whose text json.load rejects
LoadFiles ==
    { [exists |-> FALSE, json |-> FALSE, global_filters |-> <<>>, sampling_rules |-> <<>>],
      [exists |-> TRUE, json |-> FALSE, global_filters |-> <<>>, sampling_rules |-> <<>>] }
    \cup {[exists |-> TRUE, json |-> TRUE, global_filters |-> fs, sampling_rules |-> rs] :
              fs \in FileLists(ConfigFilters, BadFilterEntries, MaxFilters),
              rs \in FileLists(ConfigRules, BadRuleEntries, 1)}

NoLoadOut == [done |-> FALSE, raised |-> FALSE, returned |-> <<>>]

InitLoadFile ==
    /\ current_table = "kundenstamm"
    /\ column_names = TableColumns["kundenstamm"]
    /\ column_types = TableColumnTypes["kundenstamm"]
    /\ data = TableRows["kundenstamm"]
    /\ filtered_data = data
    /\ global_filters \in SeqsUpTo(DialogFilters, 1)
    /\ sampling_rules \in SeqsUpTo(DialogRules, 1)
    /\ results = <<>>
    /\ config_file \in LoadFiles
    /\ saved_from = [phase |-> "none", global_filters |-> <<>>, sampling_rules |-> <<>>]
    /\ InitRun
    /\ pin = [global_filters |-> global_filters, sampling_rules |-> sampling_rules]
    /\ pout = NoLoadOut

\* "with open(filename, 'r') as f: save_data = json.load(f)" raises
ReadRaises(doc) == ~doc.exists \/ ~doc.json

\* DataHandler.load_configuration(filename) on any file; pin keeps the
\* filters and rules from before the call
LoadFile ==
    /\ ~pout.done
    /\ IF ReadRaises(config_file)
       THEN /\ pout' = [done |-> TRUE, raised |-> TRUE, returned |-> <<>>]
            /\ UNCHANGED <<global_filters, sampling_rules>>
       ELSE LET loaded == load_configuration(config_file, column_types, sampling_rules)
            IN /\ global_filters' = loaded.global_filters
               /\ sampling_rules' = loaded.sampling_rules
               /\ pout' = [done |-> TRUE, raised |-> loaded.raised, returned |-> loaded.returned]
    /\ UNCHANGED <<current_table, column_names, column_types, data, filtered_data, results,
                   pin, fileVars, runVars>>

SpecLoadFile == InitLoadFile /\ [][LoadFile]_vars

(***************************************************************************)
(* set_table of a DataHandler on any table of the store, holding filters,  *)
(* rules and results or none, for the name of a table of the store or      *)
(* another name, against a store that answers or raises.                   *)
(***************************************************************************)
\* a name that is not in available_tables
other_table == "financial_data"

NoTableOut == [done |-> FALSE, table_name |-> ""]

InitTable ==
    /\ current_table \in Range(available_tables)
    /\ column_names = TableColumns[current_table]
    /\ column_types = TableColumnTypes[current_table]
    /\ data = TableRows[current_table]
    /\ filtered_data = data
    /\ global_filters \in SeqsUpTo(OnTable(DialogFilters, current_table), 1)
    /\ sampling_rules \in SeqsUpTo(OnTable(ConfigRules, current_table), 1)
    /\ results \in StaleResults
    /\ InitFile /\ InitRun
    /\ pin = handlerVars
    /\ pout = NoTableOut

\* DataHandler.set_table(table_name); pin keeps the fields from before the
\* call
set_table ==
    /\ \E table_name \in Range(available_tables) \cup {other_table}, fail_at \in FailPoints :
          /\ pout' = [done |-> TRUE, table_name |-> table_name]
          /\ IF table_name \in Range(available_tables)
             THEN LET now == initialize_data(table_name, Loaded, fail_at)
                  IN /\ current_table' = table_name
                     /\ column_names' = now.column_names
                     /\ column_types' = now.column_types
                     /\ data' = now.data
                     /\ filtered_data' = now.filtered_data
                     /\ global_filters' = <<>>
                     /\ sampling_rules' = <<>>
                     /\ results' = <<>>
             ELSE UNCHANGED handlerVars
    /\ pin' = handlerVars
    /\ UNCHANGED <<fileVars, runVars>>

SpecTable == InitTable /\ [][set_table]_vars

(***************************************************************************)
(* The sampling run as the UI starts it, with the progress callback that   *)
(* calls root.update(): between taking a rule and processing it the run is *)
(* inside the callback, where the handlers of the pending events run.  The *)
(* handlers are those that leave the list object and the rule objects of   *)
(* sampling_rules in place; a handler that starts a run suspends the run   *)
(* it was called from, up to MaxNesting suspended runs.  The rules at the  *)
(* start are a list the rule dialog has built.                             *)
(***************************************************************************)
InitOverlap ==
    /\ current_table = "kundenstamm"
    /\ column_names = TableColumns["kundenstamm"]
    /\ column_types = TableColumnTypes["kundenstamm"]
    /\ data = TableRows["kundenstamm"]
    /\ filtered_data = data
    /\ global_filters = <<>>
    /\ sampling_rules \in SeqsUpTo(ConfigRules \ DialogRules, MaxRules)
    /\ results = <<>>
    /\ InitFile /\ InitRun /\ InitPredIdle

NextOverlap ==
    \/ GenerateSample \/ GenerateCallback \/ GenerateBody \/ GenerateReturn
    \/ AddGlobalFilter \/ ApplyGlobalFilters \/ RefreshData
    \/ AddSamplingRule \/ DeleteSamplingRule
    \/ ClearResults

SpecOverlap == InitOverlap /\ [][NextOverlap]_vars

(***************************************************************************)
(* DataHandler.export_results / export_by_rule: the rows handed to the CSV *)
(* writer, every cell a text.                                              *)
(***************************************************************************)
\* the cell written for value in a column of type column_type; .strftime on
\* a number raises AttributeError
ExportCell(value, column_type) ==
    IF value = None THEN [raised |-> FALSE, text |-> <<>>]
    ELSE IF column_type = NUMBER
    THEN [raised |-> FALSE, text |-> Replace(PyStr(value), ".", <<",">>)]
    ELSE IF column_type = DATE
    THEN IF value.t = "str" THEN [raised |-> FALSE, text |-> value.s]
         ELSE IF value.t = "datetime" THEN [raised |-> FALSE, text |-> StrftimeDmy(value)]
         ELSE [raised |-> TRUE, text |-> <<>>]
    ELSE [raised |-> FALSE, text |-> PyStr(value)]

\* the row dictionary built for result: one cell per column, and the cell
\* 'rule' when with_rule
ExportRow(result, with_rule) ==
    [col \in Range(column_names) \cup (IF with_rule THEN {"rule"} ELSE {}) |->
        IF col = "rule" /\ with_rule THEN result["_rule_name"].s
        ELSE ExportCell(Get(result, col), column_types[col]).text]

ExportRaises(rows) ==
    \E i \in 1..Len(rows), col \in Range(column_names) :
        ExportCell(Get(rows[i], col), column_types[col]).raised

\* export_results: the header and the rows of the file
export_results ==
    [raised |-> ExportRaises(results),
     fieldnames |-> <<"rule">> \o column_names,
     rows |-> [i \in 1..Len(results) |-> ExportRow(results[i], TRUE)]]

\* the characters of the model's texts that str.isalnum() accepts
IsAlnum(c) == c \in {"a", "b", "A", "B", "Z"} \/ IsDigit(c)

\* str.rstrip()
RECURSIVE RStrip(_)
RStrip(s) ==
    IF s # <<>> /\ s[Len(s)] = " " THEN RStrip(SubSeq(s, 1, Len(s) - 1)) ELSE s

\* "".join(c for c in rule_name if c.isalnum() or c in (' ', '-', '_')).rstrip()
safe_name(rule_name) ==
    RStrip(SelectSeq(rule_name, LAMBDA c : IsAlnum(c) \/ c \in {" ", "-", "_"}))

\* export_by_rule: for each rule name of results the name, the header and the
\* rows of the file its turn of the loop writes; the directory afterwards (the
\* loop takes the names in the order of their first row in results, and a file
\* opened with 'w' replaces one of the same name); and the number returned
export_by_rule ==
    LET names == {results[i]["_rule_name"].s : i \in 1..Len(results)}
        of(name) == SelectSeq(results, LAMBDA r : r["_rule_name"].s = name)
        first(name) == CHOOSE i \in 1..Len(results) :
                          /\ results[i]["_rule_name"].s = name
                          /\ \A j \in 1..(i - 1) : results[j]["_rule_name"].s # name
        files == [name \in names |->
                     [filename |-> safe_name(name) \o <<".csv">>,
                      fieldnames |-> column_names,
                      rows |-> [i \in 1..Len(of(name)) |-> ExportRow(of(name)[i], FALSE)]]]
        last(filename) == CHOOSE name \in names :
                             /\ files[name].filename = filename
                             /\ \A other \in names :
                                   files[other].filename = filename => first(other) <= first(name)
    IN [raised |-> ExportRaises(results),
        files |-> files,
        directory |-> [filename \in {files[name].filename : name \in names} |->
                          [fieldnames |-> column_names, rows |-> files[last(filename)].rows]],
        returned |-> Cardinality(names)]

(***************************************************************************)
(* The exports on bounded results: up to two result rows holding null,     *)
(* texts, numbers, and dates as ISO texts or as date objects.              *)
(***************************************************************************)
\* a rule name the rule dialog accepts, with a character safe_name drops
name_A_slash == <<"A", "/">>

ExportResultsPool ==
    {Tagged(Row(r, u, d), name) :
        r \in {Str(txt_a), None},
        u \in {Num(5), Str(<<"1", ".", "5">>), None},
        d \in {Str(Iso(2024, 1, 15)), DateTime(2024, 1, 15), None},
        name \in {name_A, name_B, name_A_slash}}

NoExportOut == [done |-> FALSE, kind |-> "", out |-> <<>>]

InitExport ==
    /\ current_table = "kundenstamm"
    /\ column_names = TableColumns["kundenstamm"]
    /\ column_types = TableColumnTypes["kundenstamm"]
    /\ data = TableRows["kundenstamm"]
    /\ filtered_data = data
    /\ global_filters = <<>>
    /\ sampling_rules = <<>>
    /\ results \in SeqsUpTo(ExportResultsPool, 2)
    /\ InitFile /\ InitRun
    /\ pin = [filters |-> <<>>, row |-> <<>>]
    /\ pout = NoExportOut

ExportResults ==
    /\ ~pout.done
    /\ pout' = [done |-> TRUE, kind |-> "results", out |-> export_results]
    /\ UNCHANGED <<pin, handlerVars, fileVars, runVars>>

ExportByRule ==
    /\ ~pout.done
    /\ pout' = [done |-> TRUE, kind |-> "by_rule", out |-> export_by_rule]
    /\ UNCHANGED <<pin, handlerVars, fileVars, runVars>>

NextExport == ExportResults \/ ExportByRule

SpecExport == InitExport /\ [][NextExport]_vars

(***************************************************************************)
(* Properties of the predicate evaluators (checked under SpecPred).        *)
(***************************************************************************)
\* position of the k-th placeholder of toks
PhPos(toks, k) ==
    CHOOSE i \in 1..Len(toks) : toks[i].k = "ph" /\ NumPlaceholders(SubSeq(toks, 1, i)) = k

\* the column token that governs position i: the nearest one before it
ColBefore(toks, i) ==
    LET j == CHOOSE h \in 1..i : toks[h].k = "col" /\ \A g \in (h + 1)..i : toks[g].k # "col"
    IN toks[j].w

\* the fixed pieces of SQL text to_sql_where and apply_global_filters write
FixedSql == {"IN (", ",", ")", "(", "LIKE", "CAST(", "AS REAL)", ">=", "<=", "AND"}

\* the value the configuration of f gives to the k-th placeholder of toks
BoundValue(f, toks, k) ==
    LET i == PhPos(toks, k)
        before == toks[i - 1].w
        cfg == f.filter_config
    IN CASE before = "LIKE" -> Str(<<"%">> \o cfg.pattern \o <<"%">>)
         [] before \in {"IN (", ","} -> Str(cfg.values[k])
         [] before = ">=" -> IF f.column_type = NUMBER THEN cfg.min ELSE Str(StrftimeYmd(cfg.from))
         [] before = "<=" -> IF f.column_type = NUMBER THEN cfg.max ELSE Str(StrftimeYmd(cfg.to))
         [] OTHER -> None

\* number of parameters the filters before the i-th contribute
RECURSIVE ParamOffset(_, _)
ParamOffset(sql, i) ==
    IF i <= 1 THEN 0 ELSE ParamOffset(sql, i - 1) + Len(sql[i - 1].params)

\* C6 (as claimed): a filter or rule with an empty filter_config matches every
\* row, for TEXT, NUMBER and DATE, and to_sql_where returns no predicate for it.
C6_FilterNoOpLaw ==
    pout.done =>
        \A i \in 1..Len(pin.filters) :
            pin.filters[i].filter_config = <<>> =>
                pout.m[i] /\ pout.sql[i] = SqlNone

\* C7 (as claimed): for one filter with a constraint, the row is selected by the
\* SQL predicate of to_sql_where iff SamplingRule.matches is true of it.
C7_EvaluatorsAgree ==
    (pout.done /\ Len(pin.filters) = 1 /\ pout.sql[1].clause # <<>>) =>
        (pout.selected <=> pout.m[1])

\* C8: the predicate text of to_sql_where holds only the filter's column, fixed
\* SQL and '?' placeholders; there are as many placeholders as parameters and the
\* k-th parameter is the value configured for the k-th placeholder; the clause of
\* apply_global_filters keeps that alignment over the whole list of filters.
C8_LiteralsAreBound ==
    pout.done =>
        /\ \A i \in 1..Len(pin.filters) :
              LET f == pin.filters[i]
                  q == pout.sql[i]
              IN /\ ~q.raised
                 /\ \A h \in 1..Len(q.clause) :
                       \/ q.clause[h] = Col(f.column)
                       \/ q.clause[h] = Ph
                       \/ q.clause[h].k = "kw" /\ q.clause[h].w \in FixedSql
                 /\ NumPlaceholders(q.clause) = Len(q.params)
                 /\ \A k \in 1..Len(q.params) : q.params[k] = BoundValue(f, q.clause, k)
        /\ LET w == pout.where
               toks == JoinAnd(w.where_clauses)
           IN /\ ~w.raised
              /\ NumPlaceholders(toks) = Len(w.all_params)
              /\ \A i \in 1..Len(pin.filters) : \A k \in 1..Len(pout.sql[i].params) :
                    LET g == ParamOffset(pout.sql, i) + k
                    IN /\ g <= Len(w.all_params)
                       /\ w.all_params[g] = pout.sql[i].params[k]
                       /\ ColBefore(toks, PhPos(toks, g)) = pin.filters[i].column
              /\ \A h \in 1..(Len(toks) - 1) :
                    toks[h] = Kw(")") /\ toks[h + 1] # Kw(")") => toks[h + 1] = Kw("AND")

\* C8 witness: a list of filters whose clause binds at least three parameters
C8_Witness ==
    /\ pout.done /\ Len(pin.filters) >= 2 /\ Len(pout.where.all_params) >= 3
    /\ Len(pout.where.where_clauses) >= 2

(***************************************************************************)
(* Properties of the sampling run (checked under SpecSampling).            *)
(***************************************************************************)
\* the entries of results drawn for the k-th rule
DrawnBy(k) == {h \in 1..Len(drawn) : drawn[h].rule = k}

\* the rows of filtered_data drawn for the rules before the k-th
DrawnBefore(k) == {drawn[h].idx : h \in {g \in 1..Len(drawn) : drawn[g].rule < k}}

\* the rows of filtered_data that match the k-th rule and were not drawn before it
Eligible(k) ==
    {idx \in 1..Len(filtered_data) :
        matches(sampling_rules[k], filtered_data[idx]) /\ idx \notin DrawnBefore(k)}

\* every entry of results is the copy of the row it was drawn from
ResultsAreDrawnRows ==
    /\ Len(results) = Len(drawn)
    /\ \A h \in 1..Len(drawn) :
          /\ drawn[h].idx \in 1..Len(filtered_data)
          /\ drawn[h].rule \in 1..Len(sampling_rules)
          /\ results[h] = Tagged(filtered_data[drawn[h].idx], sampling_rules[drawn[h].rule].name)

\* C1: during and after a run no row index of filtered_data stands behind two
\* entries of results, so no row carries two rule names.
C1_NoRowDrawnTwice ==
    pc # "idle" =>
        /\ ResultsAreDrawnRows
        /\ \A g, h \in 1..Len(drawn) : g # h => drawn[g].idx # drawn[h].idx

\* C1 witness: a finished run of two rules that match a common row, both drawing
C1_Witness ==
    /\ pc = "returned" /\ Len(sampling_rules) = 2
    /\ DrawnBy(1) # {} /\ DrawnBy(2) # {}
    /\ \E idx \in 1..Len(filtered_data) :
          matches(sampling_rules[1], filtered_data[idx]) /\ matches(sampling_rules[2], filtered_data[idx])

C3_RulesInDeclaredOrder ==
    pc # "idle" =>
        /\ Len(results) = Len(drawn)
        /\ \A h \in 1..Len(drawn) :
              /\ drawn[h].rule \in 1..rule_i
              /\ matches(sampling_rules[drawn[h].rule], filtered_data[drawn[h].idx])
              /\ results[h]["_rule_name"] = Str(sampling_rules[drawn[h].rule].name)
              /\ drawn[h].idx \notin DrawnBefore(drawn[h].rule)
        /\ \A g, h \in 1..Len(drawn) : g < h => drawn[g].rule <= drawn[h].rule

\* C3 witness: the second rule drew a row while a row it matches had gone to the first
C3_Witness ==
    /\ pc = "returned" /\ Len(sampling_rules) = 2
    /\ DrawnBy(1) # {} /\ DrawnBy(2) # {}
    /\ \E idx \in DrawnBefore(2) : matches(sampling_rules[2], filtered_data[idx])
    /\ \E idx \in 1..Len(filtered_data) : ~matches(sampling_rules[2], filtered_data[idx])

\* C9: the report holds one line per processed rule, in rule order: the rule's
\* name with the number of rows drawn for it and "samples" when that number is
\* positive, the name with "0 samples (no matches)" otherwise.
C9_ReportPerRule ==
    pc # "idle" =>
        /\ Len(rule_results) = rule_i
        /\ pc = "returned" => Len(rule_results) = Len(sampling_rules)
        /\ \A k \in 1..rule_i :
              LET n == Cardinality(DrawnBy(k)) IN
              /\ rule_results[k].name = sampling_rules[k].name
              /\ rule_results[k].n = n
              /\ rule_results[k].text = IF n > 0 THEN "samples" ELSE "samples (no matches)"

\* C9 witness: a report with a line of drawn rows for a rule that asked for more,
\* and a "no matches" line
C9_Witness ==
    /\ pc = "returned" /\ Len(rule_results) = 2
    /\ \E k \in 1..2 : rule_results[k].n > 0 /\ rule_results[k].n < sampling_rules[k].sample_count
    /\ \E k \in 1..2 : rule_results[k].text = "samples (no matches)"

\* C10: a run over an empty list of rules returns an empty report and leaves
\* results empty, whatever filtered_data holds.
C10_NoRulesNoResults ==
    (pc = "returned" /\ sampling_rules = <<>>) => (rule_results = <<>> /\ results = <<>>)

\* C10 witness: a run without rules over a non-empty filtered_data has returned
C10_Witness ==
    pc = "returned" /\ sampling_rules = <<>> /\ filtered_data # <<>> /\ results = <<>>

(***************************************************************************)
(* Properties of the handlers (checked under Spec).                        *)
(***************************************************************************)
\* would the store select row for the single filter f
SatisfiesFilter(f, row) == Selected(<<f>>, row)

\* C4: the global filters are applied before any rule runs: whatever handlers
\* ran before, every row a sampling run puts into results satisfies every
\* filter that is in global_filters during that run.
C4_FiltersAppliedBeforeRun ==
    pc \in {"sampling", "returned"} =>
        \A i \in 1..Len(results), k \in 1..Len(global_filters) :
            SatisfiesFilter(global_filters[k], results[i])

(***************************************************************************)
(* Properties of save and load (checked under SpecConfig).                 *)
(***************************************************************************)
\* C5: save_configuration followed by load_configuration on the same dataset
\* leaves global_filters and sampling_rules deep-equal to what they were
\* before the save.
C5_SaveLoadRoundTrip ==
    saved_from.phase = "loaded" =>
        /\ global_filters = saved_from.global_filters
        /\ sampling_rules = saved_from.sampling_rules

(***************************************************************************)
(* Properties of the sampling run on fixtures and scenarios.               *)
(***************************************************************************)
\* the rows of filtered_data the k-th rule matches
MatchSet(k) == {idx \in 1..Len(filtered_data) : matches(sampling_rules[k], filtered_data[idx])}

\* C11 (as claimed): in the fixture (ten rows, A and B both match rows 1 to 5,
\* three rows asked by each) a run yields 6 rows in total, whichever rule is
\* declared first.
C11_TotalIsSix ==
    pc = "returned" => Len(results) = 6

\* C11 (amended): in the fixture the rule declared first gets 3 rows and the
\* second min(3, rows it matches that the first did not draw); the total is 5 in
\* either order when both rules match rows 1 to 5 only, and 6 in either order
\* when each rule matches at least 6 rows.
C11_TotalByOverlap ==
    pc = "returned" =>
        /\ Cardinality(DrawnBy(1)) = 3
        /\ Cardinality(DrawnBy(2)) = Min(3, Cardinality(MatchSet(2) \ DrawnBefore(2)))
        /\ Len(results) = Cardinality(DrawnBy(1)) + Cardinality(DrawnBy(2))
        /\ (MatchSet(1) = 1..5 /\ MatchSet(2) = 1..5) => Len(results) = 5
        /\ (Cardinality(MatchSet(1)) >= 6 /\ Cardinality(MatchSet(2)) >= 6) => Len(results) = 6

\* C11 witness: B declared first, both rules matching rows 1 to 5 only: B drew 3
\* rows, A the 2 rows left
C11_Witness ==
    /\ pc = "returned" /\ Len(filtered_data) = 10
    /\ sampling_rules[1].name = name_B /\ sampling_rules[2].name = name_A
    /\ MatchSet(1) = 1..5 /\ MatchSet(2) = 1..5
    /\ Cardinality(DrawnBy(1)) = 3 /\ Cardinality(DrawnBy(2)) = 2

\* sum of the sample counts of rules
RECURSIVE SumCounts(_)
SumCounts(rules) ==
    IF rules = <<>> THEN 0 ELSE rules[1].sample_count + SumCounts(Tail(rules))

\* the match sets of the rules are pairwise disjoint
DisjointRules ==
    \A j, k \in 1..Len(sampling_rules) : j # k => MatchSet(j) \cap MatchSet(k) = {}

\* every rule has at least sample_count matching rows
EnoughRows ==
    \A k \in 1..Len(sampling_rules) : Cardinality(MatchSet(k)) >= sampling_rules[k].sample_count

\* the run returned the sum of the sample counts, sample_count rows tagged per
\* rule, no row twice
ExactAllocation ==
    /\ Len(results) = SumCounts(sampling_rules)
    /\ \A k \in 1..Len(sampling_rules) :
          /\ Cardinality(DrawnBy(k)) = sampling_rules[k].sample_count
          /\ \A h \in DrawnBy(k) : results[h]["_rule_name"] = Str(sampling_rules[k].name)
    /\ \A g, h \in 1..Len(drawn) : g # h => drawn[g].idx # drawn[h].idx

EmptySelection(f) ==
    /\ f.column_type = TEXT
    /\ "values" \in DOMAIN f.filter_config
    /\ FilterType(f.filter_config) = "equals"
    /\ f.filter_config.values = <<>>

\* C13 (as claimed): a TEXT equals filter or rule whose value set is present but
\* empty matches no row, in SamplingRule.matches and in the predicate of
\* to_sql_where (which then selects no row).
C13_EmptySelectionMatchesNothing ==
    pout.done =>
        \A i \in 1..Len(pin.filters) :
            EmptySelection(pin.filters[i]) =>
                /\ ~pout.m[i]
                /\ pout.sql[i].clause # <<>>
                /\ Len(pin.filters) = 1 => ~pout.selected

\* a and b are the same character up to the case of a letter
SameLetter(a, b) ==
    a = b \/ {a, b} \in {{"a", "A"}, {"b", "B"}, {"n", "N"}, {"e", "E"}, {"o", "O"}}

\* pattern occurs in text, letters compared without regard to case
CaseInsensitiveSubstring(pattern, text) ==
    \E start \in 1..(Len(text) - Len(pattern) + 1) :
        \A j \in 1..Len(pattern) : SameLetter(pattern[j], text[start + j - 1])

\* C14: for a TEXT contains rule, matches is true iff the pattern is empty or the
\* pattern is a case-insensitive substring of str(row value).
C14_ContainsIgnoresCase ==
    pout.done =>
        \A i \in 1..Len(pin.filters) :
            LET f == pin.filters[i] IN
            (/\ f.column_type = TEXT /\ f.filter_config # <<>>
             /\ FilterType(f.filter_config) = "contains") =>
                (pout.m[i] <=>
                    \/ f.filter_config.pattern = <<>>
                    \/ CaseInsensitiveSubstring(f.filter_config.pattern,
                                                PyStr(Get(pin.row, f.column))))

\* C14 witness: the pattern "A" evaluated on the value "a", and found
C14_Witness ==
    /\ pout.done /\ Len(pin.filters) = 1
    /\ pin.filters[1].column_type = TEXT
    /\ pin.filters[1].filter_config = [type |-> "contains", pattern |-> <<"A">>]
    /\ pin.row.rechtsform = Str(<<"a">>)
    /\ pout.m[1]

RECURSIVE Pow10(_)
Pow10(k) == IF k = 0 THEN 1 ELSE 10 * Pow10(k - 1)

NoBlanks(s) == SelectSeq(s, LAMBDA c : c # " ")

\* the number a row value stands for, as mant / 10^scale: the value itself, or
\* the number the type inference reads in a text
NumberOf(v) ==
    IF v.t = "num" THEN [ok |-> TRUE, mant |-> v.n, scale |-> 0]
    ELSE LET t == NoBlanks(NormalizeDecimal(v.s))
             neg == t # <<>> /\ t[1] = "-"
             f == Fields(IF neg THEN Tail(t) ELSE t, ".")
             frac == IF Len(f) = 2 THEN f[2] ELSE <<>>
         IN IF v.t = "str" /\ PyFloatOk(t)
            THEN [ok |-> TRUE,
                  mant |-> (IF neg THEN -1 ELSE 1) * DigitsVal(f[1] \o frac),
                  scale |-> Len(frac)]
            ELSE [ok |-> FALSE, mant |-> 0, scale |-> 0]

\* C15 (as claimed): a NUMBER rule is false of a null value; of any other value
\* it is true iff min <= value when min is set and value <= max when max is set,
\* bounds inclusive, a bound 0 counting as set.
C15_NumberRange ==
    pout.done =>
        \A i \in 1..Len(pin.filters) :
            LET f == pin.filters[i]
                v == Get(pin.row, f.column)
                x == NumberOf(v)
                min_val == Get(f.filter_config, "min")
                max_val == Get(f.filter_config, "max")
            IN f.column_type = NUMBER =>
                  IF v = None THEN ~pout.m[i]
                  ELSE x.ok =>
                         (pout.m[i] <=>
                            /\ min_val # None => min_val.n * Pow10(x.scale) <= x.mant
                            /\ max_val # None => x.mant <= max_val.n * Pow10(x.scale))

\* the date a row value stands for: the value itself, or the date a text reads
\* as under the first supported format it parses under
DateOf(v) ==
    LET fits == {k \in 1..Len(date_formats) : v.t = "str" /\ StrptimeFormatOk(v.s, date_formats[k])}
        first == CHOOSE k \in fits : \A h \in fits : k <= h
        fmt == date_formats[first]
    IN IF v.t = "datetime" THEN [ok |-> TRUE, n |-> v.n]
       ELSE IF fits # {}
       THEN [ok |-> TRUE, n |-> StrptimeVal(Replace(v.s, fmt.sep, <<"-">>), fmt.y, fmt.m, fmt.d).n]
       ELSE [ok |-> FALSE, n |-> 0]

\* C16 (as claimed): a DATE rule is false of a null value; of any other date
\* value of a DATE column, date object or date text, it is true iff
\* from <= value when from is set and value <= to when to is set, bounds inclusive.
C16_DateRange ==
    pout.done =>
        \A i \in 1..Len(pin.filters) :
            LET f == pin.filters[i]
                v == Get(pin.row, f.column)
                x == DateOf(v)
                date_from == Get(f.filter_config, "from")
                date_to == Get(f.filter_config, "to")
            IN f.column_type = DATE =>
                  IF v = None THEN ~pout.m[i]
                  ELSE x.ok =>
                         (pout.m[i] <=>
                            /\ date_from # None => date_from.n <= x.n
                            /\ date_to # None => x.n <= date_to.n)

(***************************************************************************)
(* Properties of detect_column_type (checked under SpecDetect).            *)
(***************************************************************************)
\* the values of the sample that parse as a date under some supported format
DateValues(values) ==
    {i \in 1..Len(values) :
        /\ values[i].t = "str"
        /\ \E k \in 1..Len(date_formats) : StrptimeFormatOk(values[i].s, date_formats[k])}

\* C17: a sample of 20 values of which exactly 11 parse as a date is DATE, one
\* with exactly 10 of 20 is not; for any sample of at most 20 values the result
\* is DATE iff strictly more than half of the values parse as a date.
C17_DateThreshold ==
    (pout.done /\ pin.values # <<>> /\ Len(pin.values) <= 20) =>
        LET dates == Cardinality(DateValues(pin.values)) IN
        /\ (Len(pin.values) = 20 /\ dates = 11) => pout.column_type = DATE
        /\ (Len(pin.values) = 20 /\ dates = 10) => pout.column_type # DATE
        /\ pout.column_type = DATE <=> 2 * dates > Len(pin.values)

\* C17 witness: a sample of 20 values, 11 of them dates, classified DATE
C17_Witness ==
    /\ pout.done /\ Len(pin.values) = 20
    /\ Cardinality(DateValues(pin.values)) = 11
    /\ pout.column_type = DATE

\* the text with the later of '.' and ',' (the ',' when there is no '.') as the
\* decimal point and the other separator stripped
DecimalPointLast(s) ==
    LET dots == {i \in 1..Len(s) : s[i] = "."}
        commas == {i \in 1..Len(s) : s[i] = ","}
        decimal == IF commas # {} /\ \A d \in dots : \E c \in commas : c > d THEN "," ELSE "."
        kept == SelectSeq(s, LAMBDA c : c \notin {".", ","} \/ c = decimal)
    IN [i \in 1..Len(kept) |-> IF kept[i] = decimal THEN "." ELSE kept[i]]

\* C18: the numeric test reads a value with the later of '.' and ',' as the
\* decimal separator and the other one stripped, a lone ',' as the decimal
\* separator; the value counts as numeric iff the text so normalized (blanks
\* removed) parses as a number.
C18_DecimalSeparator ==
    (pout.done /\ Len(pin.values) = 1 /\ Truthy(pin.values[1])) =>
        LET s == pin.values[1].s IN
        /\ pout.val_str[1] = DecimalPointLast(s)
        /\ DateValues(pin.values) = {} =>
              (pout.column_type = NUMBER <=> PyFloatOk(NoBlanks(DecimalPointLast(s))))

\* C18 witness: "1.234,56" was read as 1234.56 and counted as numeric
C18_Witness ==
    /\ pout.done
    /\ pin.values = <<Str(<<"1", ".", "2", "3", "4", ",", "5", "6">>)>>
    /\ pout.val_str[1] = <<"1", "2", "3", "4", ".", "5", "6">>
    /\ pout.column_type = NUMBER

(***************************************************************************)
(* Properties of load_configuration against another dataset (checked under *)
(* SpecConfig).                                                            *)
(***************************************************************************)
\* the entry as the JSON document holds it: date bounds as 'YYYY-MM-DD' texts
AsWritten(obj) ==
    [obj EXCEPT !.filter_config =
        [k \in DOMAIN @ |->
            IF k \in {"from", "to"} /\ @[k].t = "datetime" THEN Str(StrftimeYmd(@[k])) ELSE @[k]]]

\* the entries of the document whose column is among the loaded columns
KnownEntries(entries) == SelectSeq(entries, LAMBDA e : e.column \in Range(column_names))

\* C19: load_configuration drops every filter and every rule of the file whose
\* column is not among the loaded columns and keeps all the others, in file
\* order, in place of the previous global_filters and sampling_rules, and
\* returns the two kept counts.
C19_LoadDropsUnknownColumns ==
    [][ConfigLoad =>
        /\ [i \in 1..Len(global_filters') |-> AsWritten(global_filters'[i])]
              = KnownEntries(config_file.global_filters)
        /\ [i \in 1..Len(sampling_rules') |-> AsWritten(sampling_rules'[i])]
              = KnownEntries(config_file.sampling_rules)
        /\ load_configuration(config_file, column_types, sampling_rules).returned
              = <<Len(KnownEntries(config_file.global_filters)),
                  Len(KnownEntries(config_file.sampling_rules))>>]_vars

\* C19 witness: a file of two rules loaded against a table without the column
\* of one of them: the other rule is what sampling_rules holds
C19_Witness ==
    /\ config_file.exists /\ Len(config_file.sampling_rules) = 2
    /\ Len(KnownEntries(config_file.sampling_rules)) = 1
    /\ config_file.global_filters # <<>> /\ KnownEntries(config_file.global_filters) = <<>>
    /\ global_filters = <<>>
    /\ Len(sampling_rules) = 1
    /\ AsWritten(sampling_rules[1]) = KnownEntries(config_file.sampling_rules)[1]

(***************************************************************************)
(* Properties of the exports (checked under SpecExport).                   *)
(***************************************************************************)
\* the cell the export contract asks for: a number with a decimal comma, a
\* date as DD-MM-YYYY whether the row holds a date object or a date text
LocaleCell(value, column_type) ==
    IF column_type = NUMBER
    THEN [i \in 1..Len(PyStr(value)) |-> IF PyStr(value)[i] = "." THEN "," ELSE PyStr(value)[i]]
    ELSE LET x == DateOf(value)
         IN StrftimeDmy([t |-> "datetime", s |-> <<>>, n |-> x.n])

\* C20 (as claimed): in both exports every non-null value of a NUMBER column is
\* written with a decimal comma and every non-null value of a DATE column as
\* DD-MM-YYYY, date object or date text; export_results writes a leading
\* 'rule' column holding the rule name of each row.
C20_ExportFormats ==
    (pout.done /\ ~pout.out.raised) =>
        /\ pout.kind = "results" =>
              /\ pout.out.fieldnames[1] = "rule"
              /\ Tail(pout.out.fieldnames) = column_names
              /\ \A i \in 1..Len(results) : pout.out.rows[i].rule = results[i]["_rule_name"].s
              /\ \A i \in 1..Len(results), col \in Range(column_names) :
                    (column_types[col] \in {NUMBER, DATE} /\ results[i][col] # None) =>
                        pout.out.rows[i][col] = LocaleCell(results[i][col], column_types[col])
        /\ pout.kind = "by_rule" =>
              \A name \in DOMAIN pout.out.files :
                  LET of == SelectSeq(results, LAMBDA r : r["_rule_name"].s = name)
                  IN \A i \in 1..Len(of), col \in Range(column_names) :
                        (column_types[col] \in {NUMBER, DATE} /\ of[i][col] # None) =>
                            pout.out.files[name].rows[i][col] = LocaleCell(of[i][col], column_types[col])

(***************************************************************************)
(* Properties of the rule list under the handlers (checked under Spec).    *)
(***************************************************************************)
\* C21 (as claimed): whatever rules are added, edited, deleted or loaded, the
\* names of the rules in sampling_rules are pairwise distinct.
C21_RuleNamesUnique ==
    \A i, j \in 1..Len(sampling_rules) :
        i # j => sampling_rules[i].name # sampling_rules[j].name

(***************************************************************************)
(* Properties of the run under the progress callback of the UI (checked    *)
(* under SpecOverlap).                                                     *)
(***************************************************************************)
\* C22 (as claimed): while a run is inside its progress callback, no step
\* other than that run going on with its rule changes sampling_rules,
\* filtered_data or results (no handler, no second run), and when the run has
\* returned results holds exactly the rows it drew, no row twice.
C22_RunsDoNotOverlap ==
    [][/\ (stack # <<>> \/ (pc = "callback" /\ ~GenerateBody)) =>
              UNCHANGED <<sampling_rules, filtered_data, results>>
       /\ pc' = "returned" =>
              /\ ResultsAreDrawnRows'
              /\ \A g, h \in 1..Len(drawn') : g # h => drawn'[g].idx # drawn'[h].idx]_vars

(***************************************************************************)
(* Properties of detect_column_type on samples with blanks (checked under  *)
(* SpecDetect).                                                            *)
(***************************************************************************)
\* the values of the sample that parse as a number once the later of '.' and
\* ',' is read as the decimal point
NumberValues(values) ==
    {i \in 1..Len(values) :
        /\ values[i].t = "str"
        /\ PyFloatOk(NoBlanks(DecimalPointLast(values[i].s)))}

\* the values that are neither None nor the empty text
NonBlank(values) == SelectSeq(values, LAMBDA v : v # None /\ v # Str(<<>>))

\* at most the first 20 of the non-blank values
NonBlankSample(values) ==
    LET kept == NonBlank(values)
    IN SubSeq(kept, 1, IF Len(kept) < 20 THEN Len(kept) ELSE 20)

C25_ResultsOfOneRun ==
    [][/\ pc' # "idle" =>
            /\ Len(results') = Len(drawn')
            /\ Len(results') <= Len(filtered_data')
            /\ \A h \in 1..Len(results') :
                  /\ results'[h]["_rule_name"] = Str(sampling_rules'[drawn'[h].rule].name)
                  /\ \A col \in DOMAIN filtered_data'[drawn'[h].idx] :
                        results'[h][col] = filtered_data'[drawn'[h].idx][col]
       /\ (pc # "sampling" /\ pc' = "idle") => results' = <<>>]_vars

\* C25 witness: a run that started over results left by an earlier run has
\* returned with rows of its own, fewer than filtered_data holds
C25_Witness ==
    /\ pc = "returned" /\ results # <<>> /\ Len(results) = Len(drawn)
    /\ Len(results) < Len(filtered_data)
    /\ \A h \in 1..Len(results) : results[h]["_rule_name"] # Str(<<"Z">>)

\* C26: no step of a run changes data, filtered_data, global_filters or
\* sampling_rules, no row of filtered_data gets the key '_rule_name', and each
\* entry of results has the keys and values of the row it was drawn from plus
\* '_rule_name' holding the name of its rule.
C26_RunLeavesRowsAlone ==
    [][pc' # "idle" =>
          /\ UNCHANGED <<data, filtered_data, global_filters, sampling_rules>>
          /\ \A idx \in 1..Len(filtered_data') : "_rule_name" \notin DOMAIN filtered_data'[idx]
          /\ \A h \in 1..Len(results') :
                LET row == filtered_data'[drawn'[h].idx]
                IN /\ DOMAIN results'[h] = DOMAIN row \cup {"_rule_name"}
                   /\ \A col \in DOMAIN row : results'[h][col] = row[col]
                   /\ results'[h]["_rule_name"] = Str(sampling_rules'[drawn'[h].rule].name)]_vars

\* C26 witness: a run has drawn every row of a dataset of two rows or more, and
\* data and filtered_data still hold the untagged rows
C26_Witness ==
    /\ pc = "returned" /\ Len(filtered_data) >= 2 /\ Len(results) = Len(filtered_data)
    /\ data = filtered_data
    /\ \A idx \in 1..Len(filtered_data) : DOMAIN filtered_data[idx] = {"rechtsform", "umsatz", "datum"}

(***************************************************************************)
(* Properties of the frame of save_configuration and of a failing          *)
(* load_configuration.                                                     *)
(***************************************************************************)
\* C27 (as claimed, checked under SpecConfig): right after save_configuration
\* the filters and rules in memory are equal to those before the call, DATE
\* bounds included.
C27_SaveLeavesMemory ==
    saved_from.phase = "saved" =>
        /\ global_filters = saved_from.global_filters
        /\ sampling_rules = saved_from.sampling_rules

\* C28 (as claimed, checked under SpecLoadFile): when load_configuration
\* raises, global_filters and sampling_rules are what they were before the
\* call.
C28_LoadAllOrNothing ==
    (pout.done /\ pout.raised) =>
        /\ global_filters = pin.global_filters
        /\ sampling_rules = pin.sampling_rules

(***************************************************************************)
(* Properties of set_table (checked under SpecTable).                      *)
(***************************************************************************)
\* C29 (as claimed): after set_table on a table of available_tables the
\* filters, rules and results are empty and columns, types, data and
\* filtered_data are those of the new current_table; after set_table on any
\* other name every field is what it was before the call.
C29_SetTableSwitches ==
    pout.done =>
        IF pout.table_name \in Range(available_tables)
        THEN /\ current_table = pout.table_name
             /\ global_filters = <<>> /\ sampling_rules = <<>> /\ results = <<>>
             /\ column_names = TableColumns[current_table]
             /\ column_types = TableColumnTypes[current_table]
             /\ data = TableRows[current_table]
             /\ filtered_data = TableRows[current_table]
        ELSE handlerVars = pin

\* C30 (as claimed, checked under SpecExport): export_by_rule gives different
\* rule names different files, every file of the directory holds exactly the
\* rows of results tagged with its rule, and the number returned is the number
\* of files the directory holds.
C30_OneFilePerRule ==
    (pout.done /\ pout.kind = "by_rule" /\ ~pout.out.raised) =>
        LET names == DOMAIN pout.out.files IN
        /\ \A n1, n2 \in names :
              n1 # n2 => pout.out.files[n1].filename # pout.out.files[n2].filename
        /\ \A name \in names :
              /\ pout.out.files[name].filename \in DOMAIN pout.out.directory
              /\ LET of == SelectSeq(results, LAMBDA r : r["_rule_name"].s = name)
                 IN pout.out.directory[pout.out.files[name].filename].rows =
                       [i \in 1..Len(of) |-> ExportRow(of[i], FALSE)]
        /\ pout.out.returned = Cardinality(DOMAIN pout.out.directory)

====
